---- MODULE Spec2Model ----
(***************************************************************************)
(* Serial protocol engine of the audio module driver (src/audiomodule.h): *)
(* the frame codec (BasicAudioModule::Message), the bring-up state        *)
(* machine, the timeout guard and the notification dispatcher; and the    *)
(* other objects of the sketches: the serial command buffer               *)
(* (src/commandbuffer.h), the fog machine relay (src/fogger.h), the       *)
(* rotary encoder (src/rotaryencoder.h) and the timecode reader with its   *)
(* interrupt handler (src/raven/raven/timecode.cpp).                       *)
(* unsigned long values (32 bits) are kept as two 16-bit halves.          *)
(*                                                                         *)
(* Arithmetic on uint16_t operands is evaluated at the width of unsigned  *)
(* int on the 8-bit targets the sketch is written for (16 bits).          *)
(***************************************************************************)
EXTENDS Integers, Sequences, FiniteSets, TLC

VARIABLES
  m_in,        \* BasicAudioModule::m_in, the receive-side Message
  m_out,       \* BasicAudioModule::m_out, the send-side Message
  m_state,     \* BasicAudioModule::m_state, "null" is nullptr
  m_timeout,   \* BasicAudioModule::m_timeout
  m_source,    \* BasicAudioModule::m_source
  m_files,     \* BasicAudioModule::m_files
  m_folders,   \* BasicAudioModule::m_folders
  tx,          \* frames written to the stream by the last call
  notes,       \* hooks called (and lines printed) by the last call
  visited,     \* states assigned to m_state since the last reset() call
  happy,       \* progress of the delivered events along the happy path
  seen,        \* parameters of the events counted by happy
  stream,      \* codec harness: bytes not yet given to receive()
  fed,         \* codec harness: number of bytes given to receive()
  signals,     \* codec harness: one record per receive() that returned true
  plan,        \* codec harness: what the stream was built from
  resets,      \* number of reset() calls so far
  last,        \* the last step: see Step
  cmd,         \* the CommandBuffer object: buf, buflen
  serial,      \* characters waiting in Serial
  heard,       \* what available() did: its result, the line read so far
  fogger,      \* the Fogger object: m_timeout, and the relay it drives
  millis,      \* the millisecond clock, unsigned 32 bits
  burst,       \* the burst on() started: when, how long, the calls since
  encoder,     \* the RotaryEncoder object: m_state, m_raw_count
  pins,        \* the levels of the encoder's pins A and B (1 is HIGH)
  turn,        \* the encoder's steps since reset() and its last true update()
  tc,          \* the TimecodeReader object
  upd,         \* TimecodeReader.update(): its position, locals and reads
  clock        \* the clock track: the edge due next, the words completed

vars == <<m_in, m_out, m_state, m_timeout, m_source, m_files, m_folders,
          tx, notes, visited, happy, seen, stream, fed, signals, plan, resets, last,
          cmd, serial, heard, fogger, millis, burst, encoder, pins, turn,
          tc, upd, clock>>

engineVars == <<m_out, m_state, m_timeout, m_source, m_files, m_folders,
                tx, notes, visited, happy, seen, resets, last>>

codecVars == <<stream, fed, signals, plan>>

cmdVars == <<cmd, serial, heard>>

\* the objects of the sketches other than the audio module
foggerVars == <<fogger, millis, burst>>

encoderVars == <<encoder, pins, turn>>

timecodeVars == <<tc, upd, clock>>

sketchVars == <<cmdVars, foggerVars, encoderVars, timecodeVars>>

----------------------------------------------------------------------------
\* Message framing constants (enum in class Message)

START == 126
VERSION == 255
LENGTH == 6
END == 239
NO_FEEDBACK == 0
FEEDBACK == 1

\* MsgID values used by the model
MID_ENTERSTATE == 0
MID_PLAYNEXT == 1
MID_PLAYPREVIOUS == 2
MID_PLAYFILE == 3
MID_SETVOLUME == 6
MID_SELECTEQ == 7
MID_LOOPFILE == 8
MID_SELECTSOURCE == 9
MID_SLEEP == 10
MID_WAKE == 11
MID_RESET == 12
MID_RESUME == 13
MID_UNPAUSE == MID_RESUME
MID_PAUSE == 14
MID_PLAYFROMFOLDER == 15
MID_LOOPALL == 17
MID_PLAYFROMMP3 == 18
MID_INSERTADVERT == 19
MID_PLAYFROMBIGFOLDER == 20
MID_STOPADVERT == 21
MID_STOP == 22
MID_RANDOMPLAY == 24
MID_DISABLEDAC == 26
MID_DEVICEINSERTED == 58
MID_DEVICEREMOVED == 59
MID_FINISHEDUSBFILE == 60
MID_FINISHEDSDFILE == 61
MID_FINISHEDFLASHFILE == 62
MID_INITCOMPLETE == 63
MID_ERROR == 64
MID_ACK == 65
MID_STATUS == 66
MID_VOLUME == 67
MID_EQ == 68
MID_PLAYBACKSEQUENCE == 69
MID_FIRMWAREVERSION == 70
MID_USBFILECOUNT == 71
MID_SDFILECOUNT == 72
MID_FLASHFILECOUNT == 73
MID_CURRENTUSBFILE == 75
MID_CURRENTSDFILE == 76
MID_CURRENTFLASHFILE == 77
MID_FOLDERTRACKCOUNT == 78
MID_FOLDERCOUNT == 79

EC_TIMEDOUT == 256

\* enum Device
DEV_USB == 0
DEV_SDCARD == 1
DEV_AUX == 2
DEV_SLEEP == 3
DEV_FLASH == 4

Byte == 0..255

U16(x) == x % 65536

combine(hi, lo) == U16(hi * 256) + lo
high(x) == (x \div 256) % 256
low(x) == x % 256

\* a | b on unsigned operands
RECURSIVE BitOr(_, _)
BitOr(a, b) ==
  IF a = 0 THEN b
  ELSE IF b = 0 THEN a
  ELSE (IF a % 2 = 1 \/ b % 2 = 1 THEN 1 ELSE 0) + 2 * BitOr(a \div 2, b \div 2)

----------------------------------------------------------------------------
\* class Message

\* Message::Message()
NewMessage ==
  [m_buf |-> [i \in 0..9 |->
                CASE i = 0 -> START
                  [] i = 1 -> VERSION
                  [] i = 2 -> LENGTH
                  [] i = 4 -> FEEDBACK
                  [] i = 9 -> END
                  [] OTHER -> 0],
   m_length |-> 0]

\* sum() over the payload bytes only (offsets 3..6)
sum_payload(m) ==
  U16(m.m_buf[3] + m.m_buf[4] + m.m_buf[5] + m.m_buf[6])

\* sum() that leaves out the feedback byte (offset 4)
sum_noFeedback(m) ==
  U16(m.m_buf[1] + m.m_buf[2] + m.m_buf[3] + m.m_buf[5] + m.m_buf[6])

\* Message::sum(): the bytes at offsets 1..LENGTH, summed in a uint16_t
sum(m) ==
  U16(m.m_buf[1] + m.m_buf[2] + m.m_buf[3] + m.m_buf[4] + m.m_buf[5] + m.m_buf[6])

\* set() storing the parameter low byte first
set_swapped(m, msgid, param, feedback) ==
  LET filled == [m.m_buf EXCEPT ![3] = msgid,
                                ![4] = feedback,
                                ![5] = param % 256,
                                ![6] = (param \div 256) % 256]
      checksum == U16((65535 - sum_payload([m EXCEPT !.m_buf = filled])
                             - VERSION - LENGTH + 65536) + 1)
  IN  [m_buf |-> [filled EXCEPT ![7] = (checksum \div 256) % 256,
                                ![8] = checksum % 256],
       m_length |-> 10]

\* set() storing the checksum low byte first
set_lowFirst(m, msgid, param, feedback) ==
  LET filled == [m.m_buf EXCEPT ![3] = msgid,
                                ![4] = feedback,
                                ![5] = (param \div 256) % 256,
                                ![6] = param % 256]
      checksum == U16((65535 - sum([m EXCEPT !.m_buf = filled])) + 1)
  IN  [m_buf |-> [filled EXCEPT ![7] = checksum % 256,
                                ![8] = (checksum \div 256) % 256],
       m_length |-> 10]

\* Message::set()
set(m, msgid, param, feedback) ==
  LET filled == [m.m_buf EXCEPT ![3] = msgid,
                                ![4] = feedback,
                                ![5] = (param \div 256) % 256,
                                ![6] = param % 256]
      checksum == U16((65535 - sum([m EXCEPT !.m_buf = filled])) + 1)
  IN  [m_buf |-> [filled EXCEPT ![7] = (checksum \div 256) % 256,
                                ![8] = checksum % 256],
       m_length |-> 10]

getMessageID(m) == m.m_buf[3]
getParamHi(m) == m.m_buf[5]
getParamLo(m) == m.m_buf[6]
getParam(m) == combine(m.m_buf[5], m.m_buf[6])

\* Message::isValid()
isValid(m) ==
  IF m.m_length = 8 /\ m.m_buf[7] = END THEN TRUE
  ELSE IF m.m_length # 10 THEN FALSE
  ELSE U16(sum(m) + combine(m.m_buf[7], m.m_buf[8])) = 0

\* receive() that starts over at offset 0 on every mismatch, START included
receive_noResync(m, b) ==
  LET len == IF m.m_length \in 0..9 THEN m.m_length ELSE 0
  IN  IF len \in {0, 1, 2, 9}
      THEN IF b = m.m_buf[len]
           THEN [msg |-> [m EXCEPT !.m_length = len + 1], ret |-> (len + 1 = 10)]
           ELSE [msg |-> [m EXCEPT !.m_length = 0], ret |-> FALSE]
      ELSE IF len = 7 /\ b = END
           THEN [msg |-> [m EXCEPT !.m_length = 8], ret |-> TRUE]
           ELSE [msg |-> [m EXCEPT !.m_buf[len] = b, !.m_length = len + 1],
                 ret |-> FALSE]

\* receive() that keeps a byte that matches neither the template nor START
receive_keepStray(m, b) ==
  LET len == IF m.m_length \in 0..9 THEN m.m_length ELSE 0
  IN  IF len \in {0, 1, 2, 9}
      THEN IF b = m.m_buf[len]
           THEN [msg |-> [m EXCEPT !.m_length = len + 1], ret |-> (len + 1 = 10)]
           ELSE IF b = START
                THEN [msg |-> [m EXCEPT !.m_length = 1], ret |-> FALSE]
                ELSE [msg |-> [m EXCEPT !.m_buf[len] = b, !.m_length = 0], ret |-> FALSE]
      ELSE IF len = 7 /\ b = END
           THEN [msg |-> [m EXCEPT !.m_length = 8], ret |-> TRUE]
           ELSE [msg |-> [m EXCEPT !.m_buf[len] = b, !.m_length = len + 1],
                 ret |-> FALSE]

\* Message::receive(b): the message after the call and the value returned
receive(m, b) ==
  LET len == IF m.m_length \in 0..9 THEN m.m_length ELSE 0
  IN  IF len \in {0, 1, 2, 9}
      THEN IF b = m.m_buf[len]
           THEN [msg |-> [m EXCEPT !.m_length = len + 1], ret |-> (len + 1 = 10)]
           ELSE IF b = START
                THEN [msg |-> [m EXCEPT !.m_length = 1], ret |-> FALSE]
                ELSE [msg |-> [m EXCEPT !.m_length = 0], ret |-> FALSE]
      ELSE IF len = 7 /\ b = END
           THEN [msg |-> [m EXCEPT !.m_length = 8], ret |-> TRUE]
           ELSE [msg |-> [m EXCEPT !.m_buf[len] = b, !.m_length = len + 1],
                 ret |-> FALSE]

\* the bytes sendMessage hands to the stream: getBuffer(), getLength()
wire(m) == [i \in 1..m.m_length |-> m.m_buf[i - 1]]

----------------------------------------------------------------------------
\* Timeout<MillisClock>: one deadline, counted down by the clock

\* Timeout(): nothing armed
TimeoutNew == [armed |-> FALSE, left |-> 0]
TimeoutSet(d) == [armed |-> TRUE, left |-> d]
TimeoutCancel == [armed |-> FALSE, left |-> 0]
TimeoutExpired(t) == t.armed /\ t.left = 0
TimeoutAdvance(t, d) ==
  IF t.armed THEN [t EXCEPT !.left = IF @ > d THEN @ - d ELSE 0] ELSE t

----------------------------------------------------------------------------
\* Codec harness: a fresh receiver is given, one byte per step, a stream made
\* of noise bytes followed by frames.  A frame is described by its form
\* ("full": the 10 bytes of Message::set; "short": the 8-byte variant that
\* ends with END at offset 7), its kind, parameter and feedback flag, and by
\* skew, a number added to the checksum on the wire (0 leaves it correct).

MaxNoise == 3
MaxFrames == 3

RichKinds == {0, 63, 126, 239, 255}
RichParams == {0, 1, 255, 256, 32495, 61310, 65535}
Skews == {0, 1, 261}
NoiseBytes == {0, 6, 126, 239, 255}

Desc(form, kind, param, fb, skew) ==
  [form |-> form, kind |-> kind, param |-> param, fb |-> fb, skew |-> skew]

\* the bytes on the wire for a frame description
frameBytes(d) ==
  LET m == set(NewMessage, d.kind, d.param, d.fb)
      chk == U16(combine(m.m_buf[7], m.m_buf[8]) + d.skew)
      w == wire([m EXCEPT !.m_buf[7] = high(chk), !.m_buf[8] = low(chk)])
  IN  IF d.form = "short" THEN SubSeq(w, 1, 7) \o <<END>> ELSE w

RECURSIVE concatFrames(_)
concatFrames(fs) ==
  IF fs = <<>> THEN <<>> ELSE frameBytes(Head(fs)) \o concatFrames(Tail(fs))

SeqsUpTo(S, n) == UNION {[1..k -> S] : k \in 0..n}

\* the start-of-frame pattern START VERSION LENGTH occurs in s
hasSOF(s) ==
  \E i \in 1..(Len(s) - 2) : s[i] = START /\ s[i + 1] = VERSION /\ s[i + 2] = LENGTH

SingleFrames ==
  {Desc("full", k, p, fb, sk) : k \in RichKinds, p \in RichParams,
                               fb \in {NO_FEEDBACK, FEEDBACK}, sk \in Skews}

NoisyFrames == {Desc("full", k, p, NO_FEEDBACK, 0) : k \in RichKinds, p \in {0, 61310}}

TrainFrames ==
  {Desc("full", MID_ACK, 0, 0, 0), Desc("full", MID_USBFILECOUNT, 61310, 0, 0),
   Desc("short", MID_ACK, 0, 0, 0), Desc("short", MID_INITCOMPLETE, 2, 0, 0)}

\* the frame d with the payload byte at offset o (3 kind, 4 feedback,
\* 5 param-hi, 6 param-lo) replaced by v, the checksum bytes being those of d
corrupt(d, o, v) ==
  LET was == CASE o = 3 -> d.kind [] o = 4 -> d.fb
               [] o = 5 -> high(d.param) [] o = 6 -> low(d.param)
  IN  Desc("full",
           IF o = 3 THEN v ELSE d.kind,
           CASE o = 5 -> combine(v, low(d.param))
             [] o = 6 -> combine(high(d.param), v)
             [] OTHER -> d.param,
           IF o = 4 THEN v ELSE d.fb,
           U16(d.skew + v - was + 65536))

CorruptBytes == {0, 1, 6, 126, 239, 254, 255}

CorruptFrames ==
  {corrupt(Desc("full", k, p, fb, 0), o, v) :
     k \in {0, 63, 255}, p \in {0, 255, 32495, 65535}, fb \in {NO_FEEDBACK, FEEDBACK},
     o \in 3..6, v \in CorruptBytes}
  \ {Desc("full", k, p, fb, 0) : k \in {0, 63, 255}, p \in {0, 255, 32495, 65535},
                                fb \in {NO_FEEDBACK, FEEDBACK}}

Plans ==
  {[noise |-> <<>>, frames |-> <<d>>] : d \in SingleFrames \cup CorruptFrames}
  \cup {[noise |-> n, frames |-> <<d>>] : n \in SeqsUpTo(NoiseBytes, MaxNoise), d \in NoisyFrames}
  \cup {[noise |-> <<>>, frames |-> fs] : fs \in SeqsUpTo(TrainFrames, MaxFrames)}

planBytes(p) == p.noise \o concatFrames(p.frames)

----------------------------------------------------------------------------
\* class CommandBuffer<BUFFER_SIZE> (src/commandbuffer.h)

\* the template argument, the longest line and the most characters waiting
BUFFER_SIZE == 3
MaxLine == 4
MaxPending == 2

NUL == 0
NL == 10
Chars == {NUL, NL, 97, 98}

\* a CommandBuffer whose buf holds `fill` everywhere: NUL after begin(),
\* anything before it
NewCommandBuffer(fill) == [buf |-> [i \in 0..(BUFFER_SIZE - 1) |-> fill], buflen |-> 0]

NotHeard == [ret |-> FALSE, line |-> <<>>, got |-> <<>>, oob |-> FALSE]

CmdIdle == cmd = NewCommandBuffer(NUL) /\ serial = <<>> /\ heard = NotHeard

\* buf[i] = ch; an index outside buf writes other memory and leaves buf alone
store(buf, i, ch) == IF i \in DOMAIN buf THEN [buf EXCEPT ![i] = ch] ELSE buf

\* one iteration of the loop of available() that never wraps buflen
readChar_noWrap(c, ch) ==
  LET len == c.buflen
  IN  IF ch # NL
      THEN [cmd |-> [buf |-> store(c.buf, len, ch), buflen |-> len + 1],
            done |-> FALSE, oob |-> len \notin DOMAIN c.buf]
      ELSE [cmd |-> [buf |-> store(c.buf, len, NUL), buflen |-> 0],
            done |-> TRUE, oob |-> len \notin DOMAIN c.buf]

\* one iteration of the loop of available(), for the character read
readChar(c, ch) ==
  LET len == IF c.buflen = BUFFER_SIZE THEN 0 ELSE c.buflen
  IN  IF ch # NL
      THEN [cmd |-> [buf |-> store(c.buf, len, ch), buflen |-> len + 1],
            done |-> FALSE, oob |-> len \notin DOMAIN c.buf]
      ELSE [cmd |-> [buf |-> store(c.buf, len, NUL), buflen |-> 0],
            done |-> TRUE, oob |-> len \notin DOMAIN c.buf]

\* available(): reads until a newline or until Serial is empty
RECURSIVE available(_, _, _)
available(c, in, h) ==
  IF in = <<>> THEN [cmd |-> c, serial |-> in, heard |-> [h EXCEPT !.ret = FALSE]]
  ELSE LET r == readChar(c, Head(in))
           h1 == [h EXCEPT !.oob = @ \/ r.oob]
       IN  IF r.done
           THEN [cmd |-> r.cmd, serial |-> Tail(in),
                 heard |-> [h1 EXCEPT !.ret = TRUE, !.got = h.line, !.line = <<>>]]
           ELSE available(r.cmd, Tail(in), [h1 EXCEPT !.line = Append(@, Head(in))])

----------------------------------------------------------------------------
\* unsigned long: 32 bits, as the halves hi and lo of 16 bits each

W32(hi, lo) == [hi |-> hi, lo |-> lo]
\* the unsigned long of a small number
toU32(n) == W32((n \div 65536) % 65536, n % 65536)
add32(a, b) ==
  LET lo == a.lo + b.lo
  IN  W32((a.hi + b.hi + (lo \div 65536)) % 65536, lo % 65536)
sub32(a, b) ==
  LET lo == a.lo - b.lo
      borrow == IF lo < 0 THEN 1 ELSE 0
  IN  W32((a.hi - b.hi - borrow + 65536) % 65536, (lo + 65536) % 65536)
le32(a, b) == a.hi < b.hi \/ (a.hi = b.hi /\ a.lo <= b.lo)

----------------------------------------------------------------------------
\* class Fogger (src/fogger.h)

MAX_BURST == 60000

\* Fogger(): m_timeout(0); begin() has switched the relay off
NewFogger == [m_timeout |-> toU32(0), relay |-> FALSE]

\* no burst yet; op names the last call: "on", "update", "off", or "tick"
NoBurst ==
  [op |-> "new", active |-> FALSE, length |-> 0, elapsed |-> 0, gap |-> 0,
   steady |-> TRUE, ticks |-> 0]

FoggerIdle == fogger = NewFogger /\ millis = toU32(0) /\ burst = NoBurst

\* off()
off(f) == [f EXCEPT !.relay = FALSE, !.m_timeout = toU32(0)]

\* on(duration), millis() being `now`
on(f, now, duration) ==
  IF f.m_timeout = toU32(0)
  THEN LET d == IF duration > MAX_BURST THEN MAX_BURST ELSE duration
           t == add32(now, toU32(d))
       IN  [f EXCEPT !.relay = TRUE,
                     !.m_timeout = IF t = toU32(0) THEN toU32(1) ELSE t]
  ELSE f

\* Fogger::update(), millis() being `now`
fogUpdate(f, now) ==
  IF f.m_timeout = toU32(0) THEN f
  ELSE IF le32(f.m_timeout, now)
       THEN IF le32(sub32(now, f.m_timeout), toU32(MAX_BURST)) THEN off(f) ELSE f
       ELSE IF ~le32(sub32(f.m_timeout, now), toU32(MAX_BURST)) THEN off(f) ELSE f

----------------------------------------------------------------------------
\* class RotaryEncoder (src/rotaryencoder.h)

\* RotaryEncoder(): m_counts_per_detent(1), m_state(0), m_raw_count(0)
NewEncoder == [m_counts_per_detent |-> 1, m_state |-> 0, m_raw_count |-> 0]

\* nothing turned yet; dir is "cw" or "ccw" while every step since reset()
\* went that way, "mixed" afterwards
NoTurn == [op |-> "new", ret |-> FALSE, dir |-> "none", steps |-> 0, had |-> FALSE, prev |-> 0]

EncoderIdle == encoder = NewEncoder /\ pins = [a |-> 0, b |-> 0] /\ turn = NoTurn

\* the decoder table, indexed by old A, old B, new A, new B: CW 1, CCW -1
table == <<0, -1, 1, 0, 1, 0, 0, -1, -1, 0, 0, 1, 0, 1, -1, 0>>

\* the / of C++ on int: the quotient truncated toward zero
truncDiv(x, y) == IF x >= 0 THEN x \div y ELSE -((-x) \div y)
\* the % of C++ on int: the remainder has the sign of x
truncMod(x, y) == x - y * truncDiv(x, y)

\* count() of the encoder
encCount(e) == truncDiv(e.m_counts_per_detent * (e.m_raw_count + 2), 4)

\* updateState()
updateState(e, p) == [e EXCEPT !.m_state = ((@ * 4) % 16) + 2 * p.a + p.b]

\* update(): the encoder after the call, the delta and the value returned
encUpdate(e, p) ==
  LET e1 == updateState(e, p)
      delta == table[e1.m_state + 1]
      e2 == [e1 EXCEPT !.m_raw_count = @ + delta]
  IN  [enc |-> e2, delta |-> delta,
       ret |-> /\ delta # 0
               /\ \/ e2.m_counts_per_detent >= 4
                  \/ truncMod(e2.m_raw_count, truncDiv(4, e2.m_counts_per_detent)) = 0]

----------------------------------------------------------------------------
\* class TimecodeReaderImpl (src/raven/raven/timecode.h, timecode.cpp)

sync_word == 49148
WORD_FULL == 16
SECOND_HALF == 32
FRAME_SYNC == 64

\* "??:??:??:??", the buffer as constructed
NewBuffer == <<63, 63, 58, 63, 63, 58, 63, 63, 58, 63, 63>>

NewTimecode ==
  [bitbuffer |-> 0, status |-> 0, data |-> 0, ready |-> FALSE,
   count |-> 0, buffer |-> NewBuffer]

\* update() is not running
NotUpdating ==
  [pc |-> "idle", op |-> "new", ret |-> FALSE, n |-> 0, k |-> 0,
   part |-> "none", latch |-> 0, token |-> [seq |-> 0, val |-> 0]]

\* no edge has arrived; seq and val are the last word the handler set ready
\* for, done is the last of them update() has processed, kinds tells of the
\* last words processed which were the sync word
NewClock ==
  [word |-> 1, bit |-> 0, half |-> 0, late |-> 0, seq |-> 0, val |-> 0,
   done |-> 0, kinds |-> <<>>]

TimecodeIdle == tc = NewTimecode /\ upd = NotUpdating /\ clock = NewClock

\* status & m, for a mask m of one bit
hasBit(s, m) == (s \div m) % 2 = 1
clearBit(s, m) == IF hasBit(s, m) THEN s - m ELSE s
setBit(s, m) == IF hasBit(s, m) THEN s ELSE s + m

\* timecodeInterrupt(), if (tc.status & WORD_FULL) { ... }: the word is
\* handed over
handOver(t) ==
  [t EXCEPT !.data = t.bitbuffer,
            !.ready = hasBit(t.status, FRAME_SYNC),
            !.status = IF hasBit(@, FRAME_SYNC) THEN FRAME_SYNC ELSE 0]

\* timecodeInterrupt() for an edge that comes a half bit period ("half"), a
\* full bit period ("full") or any other time ("late") after the last one:
\* the object after it, and whether a word was handed over
timecodeInterrupt(t, edge) ==
  LET lost == [tc |-> [t EXCEPT !.status = 0, !.bitbuffer = 0], full |-> FALSE]
  IN  CASE edge = "half" ->
             IF hasBit(t.status, SECOND_HALF)
             THEN LET b == (t.bitbuffer \div 2) + 32768
                      s1 == (t.status + 1) % 256
                      s2 == IF b = sync_word THEN FRAME_SYNC + WORD_FULL ELSE s1
                      t1 == [t EXCEPT !.bitbuffer = b, !.status = s2]
                  IN  IF hasBit(s2, WORD_FULL)
                      THEN [tc |-> handOver(t1), full |-> TRUE]
                      ELSE [tc |-> [t1 EXCEPT !.status = clearBit(@, SECOND_HALF)],
                            full |-> FALSE]
             ELSE [tc |-> [t EXCEPT !.status = setBit(@, SECOND_HALF)], full |-> FALSE]
        [] edge = "full" ->
             IF hasBit(t.status, SECOND_HALF)
             THEN lost
             ELSE LET t1 == [t EXCEPT !.bitbuffer = @ \div 2,
                                      !.status = (@ + 1) % 256]
                  IN  IF hasBit(t1.status, WORD_FULL)
                      THEN [tc |-> handOver(t1), full |-> TRUE]
                      ELSE [tc |-> t1, full |-> FALSE]
        [] OTHER -> lost

\* update(), the switch: the k-th statement of case n stores a digit of the
\* value v read from data
store_field(buffer, n, k, v) ==
  LET units == 48 + (v % 16)
      tens4 == 48 + ((v \div 256) % 4)
      tens8 == 48 + ((v \div 256) % 8)
  IN  CASE n = 0 /\ k = 1 -> [buffer EXCEPT ![11] = units]
        [] n = 0 /\ k = 2 -> [buffer EXCEPT ![10] = tens4]
        [] n = 0 /\ k = 3 -> [buffer EXCEPT ![9] = IF hasBit(v, 1024) THEN 59 ELSE 58]
        [] n = 1 /\ k = 1 -> [buffer EXCEPT ![8] = units]
        [] n = 1 /\ k = 2 -> [buffer EXCEPT ![7] = tens8]
        [] n = 2 /\ k = 1 -> [buffer EXCEPT ![5] = units]
        [] n = 2 /\ k = 2 -> [buffer EXCEPT ![4] = tens8]
        [] n = 3 /\ k = 1 -> [buffer EXCEPT ![2] = units]
        [] n = 3 /\ k = 2 -> [buffer EXCEPT ![1] = tens4]
        [] OTHER -> buffer

\* the number of statements of case n
fields(n) == IF n = 0 THEN 3 ELSE IF n \in 1..3 THEN 2 ELSE 0

\* the objects of the sketches as constructed, nothing called on them yet
SketchIdle == CmdIdle /\ FoggerIdle /\ EncoderIdle /\ TimecodeIdle

\* constructor values of the engine's variables (the counters are not
\* initialized by the constructor: any value)
Uninit ==
  {[source |-> DEV_USB, files |-> 0, folders |-> 0],
   [source |-> DEV_SDCARD, files |-> 261, folders |-> 2]}

\* a step: the operation, the bytes update() found or the arguments of the
\* call, and whether update() found the response the state waits for with
\* the deadline already expired
Step(op, bytes) == [op |-> op, bytes |-> bytes, late |-> FALSE]

Constructed ==
  /\ m_in = NewMessage
  /\ m_out = NewMessage
  /\ m_state = "null"
  /\ m_timeout = TimeoutNew
  /\ \E u \in Uninit : m_source = u.source /\ m_files = u.files /\ m_folders = u.folders
  /\ tx = <<>>
  /\ notes = <<>>
  /\ visited = <<>>
  /\ happy = -1
  /\ seen = [usb |-> 0, folders |-> 0]
  /\ resets = 0
  /\ last = Step("new", <<>>)

InitCodec ==
  /\ Constructed
  /\ SketchIdle
  /\ m_source = DEV_USB /\ m_files = 0 /\ m_folders = 0
  /\ plan \in Plans
  /\ stream = planBytes(plan)
  /\ fed = 0
  /\ signals = <<>>

\* one iteration of the loop of checkForIncomingMessage, without dispatch:
\* the next byte goes to m_in.receive()
Receive ==
  /\ stream # <<>>
  /\ LET r == receive(m_in, Head(stream))
     IN  /\ m_in' = r.msg
         /\ signals' = IF r.ret
                       THEN Append(signals, [at |-> fed + 1,
                                             kind |-> getMessageID(r.msg),
                                             param |-> getParam(r.msg),
                                             length |-> r.msg.m_length,
                                             valid |-> isValid(r.msg)])
                       ELSE signals
  /\ stream' = Tail(stream)
  /\ fed' = fed + 1
  /\ UNCHANGED <<plan, engineVars, sketchVars>>

NextCodec == Receive

SpecCodec == InitCodec /\ [][NextCodec]_vars

----------------------------------------------------------------------------
\* The engine.  The operators below take and return the module as a record M
\* of the fields a call can change (everything but m_in).

Self ==
  [m_out |-> m_out, m_state |-> m_state, m_timeout |-> m_timeout,
   m_source |-> m_source, m_files |-> m_files, m_folders |-> m_folders,
   tx |-> tx, notes |-> notes, visited |-> visited, happy |-> happy, seen |-> seen]

Commit(M) ==
  /\ m_out' = M.m_out
  /\ m_state' = M.m_state
  /\ m_timeout' = M.m_timeout
  /\ m_source' = M.m_source
  /\ m_files' = M.m_files
  /\ m_folders' = M.m_folders
  /\ tx' = M.tx
  /\ notes' = M.notes
  /\ visited' = M.visited
  /\ happy' = M.happy
  /\ seen' = M.seen

\* a hook call or a printed line, with up to two arguments
Note(hook, a, b) == [hook |-> hook, a |-> a, b |-> b]
say(M, hook, a, b) == [M EXCEPT !.notes = Append(@, Note(hook, a, b))]

\* sendMessage() that leaves a running deadline alone
sendMessage_keepDeadline(M) ==
  [M EXCEPT !.tx = Append(@, wire(M.m_out)),
            !.m_timeout = IF @.armed THEN @ ELSE TimeoutSet(200)]

\* sendMessage()
sendMessage(M) ==
  [M EXCEPT !.tx = Append(@, wire(M.m_out)), !.m_timeout = TimeoutSet(200)]

\* sendCommand()
sendCommand(M, msgid, param, feedback) ==
  sendMessage([M EXCEPT !.m_out = set(@, msgid, param,
                                      IF feedback THEN FEEDBACK ELSE NO_FEEDBACK)])

\* sendQuery() that asks for feedback like a command
sendQuery_feedback(M, msgid) == sendCommand(M, msgid, 0, TRUE)

\* sendQuery()
sendQuery(M, msgid) == sendCommand(M, msgid, 0, FALSE)

\* selectSource() that records the device it asks for in m_source
selectSource_remembers(M, device) ==
  CASE device = DEV_USB -> sendCommand([M EXCEPT !.m_source = device], MID_SELECTSOURCE, 1, TRUE)
    [] device = DEV_SDCARD -> sendCommand([M EXCEPT !.m_source = device], MID_SELECTSOURCE, 2, TRUE)
    [] device = DEV_FLASH -> sendCommand([M EXCEPT !.m_source = device], MID_SELECTSOURCE, 5, TRUE)
    [] OTHER -> M

\* selectSource()
selectSource(M, device) ==
  CASE device = DEV_USB -> sendCommand(M, MID_SELECTSOURCE, 1, TRUE)
    [] device = DEV_SDCARD -> sendCommand(M, MID_SELECTSOURCE, 2, TRUE)
    [] device = DEV_FLASH -> sendCommand(M, MID_SELECTSOURCE, 5, TRUE)
    [] OTHER -> M

\* queryFileCount() with the USB and SD kinds exchanged
queryFileCount_swapped(M, device) ==
  CASE device = DEV_USB -> sendQuery(M, MID_SDFILECOUNT)
    [] device = DEV_SDCARD -> sendQuery(M, MID_USBFILECOUNT)
    [] device = DEV_FLASH -> sendQuery(M, MID_FLASHFILECOUNT)
    [] OTHER -> M

\* queryFileCount()
queryFileCount(M, device) ==
  CASE device = DEV_USB -> sendQuery(M, MID_USBFILECOUNT)
    [] device = DEV_SDCARD -> sendQuery(M, MID_SDFILECOUNT)
    [] device = DEV_FLASH -> sendQuery(M, MID_FLASHFILECOUNT)
    [] OTHER -> M

\* queryCurrentFile()
queryCurrentFile(M, device) ==
  CASE device = DEV_USB -> sendQuery(M, MID_CURRENTUSBFILE)
    [] device = DEV_SDCARD -> sendQuery(M, MID_CURRENTSDFILE)
    [] device = DEV_FLASH -> sendQuery(M, MID_CURRENTFLASHFILE)
    [] OTHER -> M

queryFolderCount(M) == sendQuery(M, MID_FOLDERCOUNT)
queryStatus(M) == sendQuery(M, MID_STATUS)
queryVolume(M) == sendQuery(M, MID_VOLUME)
queryEQ(M) == sendQuery(M, MID_EQ)
queryPlaybackSequence(M) == sendQuery(M, MID_PLAYBACKSEQUENCE)
queryFirmwareVersion(M) == sendQuery(M, MID_FIRMWAREVERSION)

playFile(M, file_index) == sendCommand(M, MID_PLAYFILE, file_index, TRUE)
playNextFile(M) == sendCommand(M, MID_PLAYNEXT, 0, TRUE)
playPreviousFile(M) == sendCommand(M, MID_PLAYPREVIOUS, 0, TRUE)
loopFile(M, file_index) == sendCommand(M, MID_LOOPFILE, file_index, TRUE)
loopAllFiles(M) == sendCommand(M, MID_LOOPALL, 1, TRUE)
playFilesInRandomOrder(M) == sendCommand(M, MID_RANDOMPLAY, 0, TRUE)

\* playTrack(folder, track) whose small-folder range includes track 256
playTrack_upTo256(M, folder, track) ==
  IF track <= 256
  THEN sendCommand(M, MID_PLAYFROMFOLDER, BitOr(U16(folder * 256), track), TRUE)
  ELSE IF folder < 16 /\ track <= 3000
       THEN sendCommand(M, MID_PLAYFROMBIGFOLDER, BitOr(U16(folder * 4096), track), TRUE)
       ELSE M

\* playTrack(folder, track) that sends nothing for a folder above 15
playTrack_smallFolders(M, folder, track) ==
  IF folder >= 16 THEN M
  ELSE IF track < 256
       THEN sendCommand(M, MID_PLAYFROMFOLDER, BitOr(U16(folder * 256), track), TRUE)
       ELSE IF track <= 3000
            THEN sendCommand(M, MID_PLAYFROMBIGFOLDER, BitOr(U16(folder * 4096), track), TRUE)
            ELSE M

\* playTrack(folder, track) that falls back to the MP3 folder when neither
\* encoding fits
playTrack_fallback(M, folder, track) ==
  IF track < 256
  THEN sendCommand(M, MID_PLAYFROMFOLDER, BitOr(U16(folder * 256), track), TRUE)
  ELSE IF folder < 16 /\ track <= 3000
       THEN sendCommand(M, MID_PLAYFROMBIGFOLDER, BitOr(U16(folder * 4096), track), TRUE)
       ELSE sendCommand(M, MID_PLAYFROMMP3, track, TRUE)

\* playTrack(uint16_t folder, uint16_t track)
playTrack(M, folder, track) ==
  IF track < 256
  THEN sendCommand(M, MID_PLAYFROMFOLDER, BitOr(U16(folder * 256), track), TRUE)
  ELSE IF folder < 16 /\ track <= 3000
       THEN sendCommand(M, MID_PLAYFROMBIGFOLDER, BitOr(U16(folder * 4096), track), TRUE)
       ELSE M

\* playTrack(uint16_t track): the track is in the folder named MP3
playTrackMP3(M, track) == sendCommand(M, MID_PLAYFROMMP3, track, TRUE)

insertAdvert(M, track) == sendCommand(M, MID_INSERTADVERT, track, TRUE)
stopAdvert(M) == sendCommand(M, MID_STOPADVERT, 0, TRUE)
stop(M) == sendCommand(M, MID_STOP, 0, TRUE)
pause(M) == sendCommand(M, MID_PAUSE, 0, TRUE)
unpause(M) == sendCommand(M, MID_UNPAUSE, 0, TRUE)

\* setVolume() without the lower clamp
setVolume_noFloor(M, volume) ==
  LET v == IF 30 < volume THEN 30 ELSE volume
  IN  sendCommand(M, MID_SETVOLUME, U16(v + 65536), TRUE)

\* setVolume(int volume)
setVolume(M, volume) ==
  LET v0 == IF volume < 0 THEN 0 ELSE volume
      v == IF 30 < v0 THEN 30 ELSE v0
  IN  sendCommand(M, MID_SETVOLUME, U16(v + 65536), TRUE)

selectEQ(M, eq) == sendCommand(M, MID_SELECTEQ, eq, TRUE)
sleep(M) == sendCommand(M, MID_SLEEP, 0, TRUE)
wake(M) == sendCommand(M, MID_WAKE, 0, TRUE)
disableDACs(M) == sendCommand(M, MID_DISABLEDAC, 1, TRUE)
enableDACs(M) == sendCommand(M, MID_DISABLEDAC, 0, TRUE)

\* a call of a public command or query: Step(name, arguments)
call(M, c) ==
  LET a == c.bytes
  IN  CASE c.op = "selectSource" -> selectSource(M, a[1])
        [] c.op = "playFile" -> playFile(M, a[1])
        [] c.op = "playNextFile" -> playNextFile(M)
        [] c.op = "playPreviousFile" -> playPreviousFile(M)
        [] c.op = "loopFile" -> loopFile(M, a[1])
        [] c.op = "loopAllFiles" -> loopAllFiles(M)
        [] c.op = "playFilesInRandomOrder" -> playFilesInRandomOrder(M)
        [] c.op = "playTrack" -> playTrack(M, a[1], a[2])
        [] c.op = "playTrackMP3" -> playTrackMP3(M, a[1])
        [] c.op = "insertAdvert" -> insertAdvert(M, a[1])
        [] c.op = "stopAdvert" -> stopAdvert(M)
        [] c.op = "stop" -> stop(M)
        [] c.op = "pause" -> pause(M)
        [] c.op = "unpause" -> unpause(M)
        [] c.op = "setVolume" -> setVolume(M, a[1])
        [] c.op = "selectEQ" -> selectEQ(M, a[1])
        [] c.op = "sleep" -> sleep(M)
        [] c.op = "wake" -> wake(M)
        [] c.op = "disableDACs" -> disableDACs(M)
        [] c.op = "enableDACs" -> enableDACs(M)
        [] c.op = "queryFileCount" -> queryFileCount(M, a[1])
        [] c.op = "queryCurrentFile" -> queryCurrentFile(M, a[1])
        [] c.op = "queryFolderCount" -> queryFolderCount(M)
        [] c.op = "queryStatus" -> queryStatus(M)
        [] c.op = "queryVolume" -> queryVolume(M)
        [] c.op = "queryEQ" -> queryEQ(M)
        [] c.op = "queryPlaybackSequence" -> queryPlaybackSequence(M)
        [] c.op = "queryFirmwareVersion" -> queryFirmwareVersion(M)

\* The onEvent of each State: the module after the call and the State returned
Stay(M) == [mod |-> M, next |-> M.m_state]
Goto(M, st) == [mod |-> M, next |-> st]

\* InitResettingHardware that skips the step on a timeout
InitResettingHardware_skip(M, msgid, paramHi, paramLo) ==
  CASE msgid = MID_ENTERSTATE ->
         Stay([say(sendCommand(M, MID_RESET, 0, FALSE), "Resetting hardware.", 0, 0)
                 EXCEPT !.m_timeout = TimeoutSet(10000)])
    [] msgid = MID_INITCOMPLETE -> Goto(M, "getting_version")
    [] msgid = MID_ERROR ->
         IF combine(paramHi, paramLo) = EC_TIMEDOUT
         THEN Goto(say(M, "No response from audio module", 0, 0), "getting_version")
         ELSE Goto(M, "null")
    [] OTHER -> Stay(M)

\* InitResettingHardware that arms the long deadline before it sends
InitResettingHardware_armFirst(M, msgid, paramHi, paramLo) ==
  CASE msgid = MID_ENTERSTATE ->
         Stay(say(sendCommand([M EXCEPT !.m_timeout = TimeoutSet(10000)], MID_RESET, 0, FALSE),
                  "Resetting hardware.", 0, 0))
    [] msgid = MID_INITCOMPLETE -> Goto(M, "getting_version")
    [] msgid = MID_ERROR ->
         Goto(IF combine(paramHi, paramLo) = EC_TIMEDOUT
              THEN say(M, "No response from audio module", 0, 0) ELSE M, "null")
    [] OTHER -> Stay(M)

InitResettingHardware(M, msgid, paramHi, paramLo) ==
  CASE msgid = MID_ENTERSTATE ->
         Stay([say(sendCommand(M, MID_RESET, 0, FALSE), "Resetting hardware.", 0, 0)
                 EXCEPT !.m_timeout = TimeoutSet(10000)])
    [] msgid = MID_INITCOMPLETE -> Goto(M, "getting_version")
    [] msgid = MID_ERROR ->
         Goto(IF combine(paramHi, paramLo) = EC_TIMEDOUT
              THEN say(M, "No response from audio module", 0, 0) ELSE M, "null")
    [] OTHER -> Stay(M)

\* InitGettingVersion that skips the step on any error
InitGettingVersion_anyError(M, msgid, paramHi, paramLo) ==
  CASE msgid = MID_ENTERSTATE -> Stay(queryFirmwareVersion(M))
    [] msgid = MID_FIRMWAREVERSION -> Goto(M, "checking_usb_file_count")
    [] msgid = MID_ERROR -> Goto(M, "checking_usb_file_count")
    [] OTHER -> Stay(M)

InitGettingVersion(M, msgid, paramHi, paramLo) ==
  CASE msgid = MID_ENTERSTATE -> Stay(queryFirmwareVersion(M))
    [] msgid = MID_FIRMWAREVERSION -> Goto(M, "checking_usb_file_count")
    [] msgid = MID_ERROR ->
         IF combine(paramHi, paramLo) = EC_TIMEDOUT
         THEN Goto(M, "checking_usb_file_count") ELSE Stay(M)
    [] OTHER -> Stay(M)

\* InitCheckingUSBFileCount that takes the count from the low byte only
InitCheckingUSBFileCount_lowByte(M, msgid, paramHi, paramLo) ==
  CASE msgid = MID_ENTERSTATE -> Stay(queryFileCount(M, DEV_USB))
    [] msgid = MID_USBFILECOUNT ->
         Goto([M EXCEPT !.m_files = paramLo],
              IF paramLo > 0 THEN "selecting_usb" ELSE "checking_sd_file_count")
    [] msgid = MID_ERROR -> Goto(M, "checking_sd_file_count")
    [] OTHER -> Stay(M)

InitCheckingUSBFileCount(M, msgid, paramHi, paramLo) ==
  CASE msgid = MID_ENTERSTATE -> Stay(queryFileCount(M, DEV_USB))
    [] msgid = MID_USBFILECOUNT ->
         LET count == U16(paramHi * 256) + paramLo
         IN  Goto([M EXCEPT !.m_files = count],
                  IF count > 0 THEN "selecting_usb" ELSE "checking_sd_file_count")
    [] msgid = MID_ERROR -> Goto(M, "checking_sd_file_count")
    [] OTHER -> Stay(M)

\* InitCheckingSDFileCount that selects the SD card when the query fails
InitCheckingSDFileCount_select(M, msgid, paramHi, paramLo) ==
  CASE msgid = MID_ENTERSTATE -> Stay(queryFileCount(M, DEV_SDCARD))
    [] msgid = MID_SDFILECOUNT ->
         LET count == U16(paramHi * 256) + paramLo
         IN  Goto([M EXCEPT !.m_files = count],
                  IF count > 0 THEN "selecting_sd" ELSE "null")
    [] msgid = MID_ERROR -> Goto(M, "selecting_sd")
    [] OTHER -> Stay(M)

InitCheckingSDFileCount(M, msgid, paramHi, paramLo) ==
  CASE msgid = MID_ENTERSTATE -> Stay(queryFileCount(M, DEV_SDCARD))
    [] msgid = MID_SDFILECOUNT ->
         LET count == U16(paramHi * 256) + paramLo
         IN  Goto([M EXCEPT !.m_files = count],
                  IF count > 0 THEN "selecting_sd" ELSE "null")
    [] msgid = MID_ERROR -> Goto(M, "null")
    [] OTHER -> Stay(M)

\* InitSelectingUSB that gives up on USB when an error or a timeout comes
InitSelectingUSB_skip(M, msgid, paramHi, paramLo) ==
  CASE msgid = MID_ENTERSTATE -> Stay(selectSource(M, DEV_USB))
    [] msgid = MID_ACK -> Goto([M EXCEPT !.m_source = DEV_USB], "checking_folder_count")
    [] msgid = MID_ERROR -> Goto(M, "checking_sd_file_count")
    [] OTHER -> Stay(M)

InitSelectingUSB(M, msgid, paramHi, paramLo) ==
  CASE msgid = MID_ENTERSTATE -> Stay(selectSource(M, DEV_USB))
    [] msgid = MID_ACK -> Goto([M EXCEPT !.m_source = DEV_USB], "checking_folder_count")
    [] OTHER -> Stay(M)

\* InitSelectingSD that records the USB drive as the selected device
InitSelectingSD_usb(M, msgid, paramHi, paramLo) ==
  CASE msgid = MID_ENTERSTATE -> Stay(selectSource(M, DEV_SDCARD))
    [] msgid = MID_ACK -> Goto([M EXCEPT !.m_source = DEV_USB], "checking_folder_count")
    [] OTHER -> Stay(M)

InitSelectingSD(M, msgid, paramHi, paramLo) ==
  CASE msgid = MID_ENTERSTATE -> Stay(selectSource(M, DEV_SDCARD))
    [] msgid = MID_ACK -> Goto([M EXCEPT !.m_source = DEV_SDCARD], "checking_folder_count")
    [] OTHER -> Stay(M)

\* InitCheckingFolderCount whose entry action sends the query twice
InitCheckingFolderCount_twice(M, msgid, paramHi, paramLo) ==
  CASE msgid = MID_ENTERSTATE -> Stay(queryFolderCount(queryFolderCount(M)))
    [] msgid = MID_FOLDERCOUNT ->
         LET M1 == [M EXCEPT !.m_folders = paramLo]
         IN  Goto(say(M1, "Audio module initialized.", M1.m_files, M1.m_folders), "null")
    [] OTHER -> Stay(M)

InitCheckingFolderCount(M, msgid, paramHi, paramLo) ==
  CASE msgid = MID_ENTERSTATE -> Stay(queryFolderCount(M))
    [] msgid = MID_FOLDERCOUNT ->
         LET M1 == [M EXCEPT !.m_folders = paramLo]
         IN  Goto(say(M1, "Audio module initialized.", M1.m_files, M1.m_folders), "null")
    [] OTHER -> Stay(M)

\* m_state->onEvent(this, msgid, paramHi, paramLo), m_state not nullptr
onEvent(M, msgid, paramHi, paramLo) ==
  CASE M.m_state = "resetting_hardware" -> InitResettingHardware(M, msgid, paramHi, paramLo)
    [] M.m_state = "getting_version" -> InitGettingVersion(M, msgid, paramHi, paramLo)
    [] M.m_state = "checking_usb_file_count" -> InitCheckingUSBFileCount(M, msgid, paramHi, paramLo)
    [] M.m_state = "checking_sd_file_count" -> InitCheckingSDFileCount(M, msgid, paramHi, paramLo)
    [] M.m_state = "selecting_usb" -> InitSelectingUSB(M, msgid, paramHi, paramLo)
    [] M.m_state = "selecting_sd" -> InitSelectingSD(M, msgid, paramHi, paramLo)
    [] M.m_state = "checking_folder_count" -> InitCheckingFolderCount(M, msgid, paramHi, paramLo)

\* setState(): the loop, with original_state taken at the call
RECURSIVE setStateFrom(_, _, _)
setStateFrom(M, new_state, original_state) ==
  IF M.m_state = new_state THEN M
  ELSE LET M1 == [M EXCEPT !.m_state = new_state, !.visited = Append(@, new_state)]
           r == IF new_state # "null" THEN onEvent(M1, MID_ENTERSTATE, 0, 0)
                ELSE [mod |-> M1, next |-> new_state]
       IN  IF r.mod.m_state = original_state THEN r.mod
           ELSE setStateFrom(r.mod, r.next, original_state)

setState(M, new_state) == setStateFrom(M, new_state, M.m_state)

\* The events a state is given, other than MID_ENTERSTATE, are followed along
\* the happy path: happy is the number of its events delivered so far in
\* order since reset(), -1 once any other event was delivered.
HappyKinds ==
  <<MID_INITCOMPLETE, MID_FIRMWAREVERSION, MID_USBFILECOUNT, MID_ACK, MID_FOLDERCOUNT>>

follow(M, msgid, paramHi, paramLo) ==
  LET param == combine(paramHi, paramLo)
      k == M.happy + 1
      ok == /\ M.happy \in 0..4
            /\ msgid = HappyKinds[k]
            /\ k = 3 => param > 0
  IN  [M EXCEPT !.happy = IF ok THEN k ELSE -1,
                !.seen = IF ok /\ k = 3 THEN [@ EXCEPT !.usb = param]
                         ELSE IF ok /\ k = 5 THEN [@ EXCEPT !.folders = param]
                         ELSE @]

bit(x, n) == (x \div (2 ^ n)) % 2

\* sayDevices that reads AUX from bit 3
sayDevices_bit3(M, hook, mask) ==
  LET M1 == IF bit(mask, 0) = 1 THEN say(M, hook, DEV_USB, 0) ELSE M
      M2 == IF bit(mask, 1) = 1 THEN say(M1, hook, DEV_SDCARD, 0) ELSE M1
  IN  IF bit(mask, 3) = 1 THEN say(M2, hook, DEV_AUX, 0) ELSE M2

\* the device hooks of a bitmask: bit0 USB, bit1 SD card, bit2 AUX
sayDevices(M, hook, mask) ==
  LET M1 == IF bit(mask, 0) = 1 THEN say(M, hook, DEV_USB, 0) ELSE M
      M2 == IF bit(mask, 1) = 1 THEN say(M1, hook, DEV_SDCARD, 0) ELSE M1
  IN  IF bit(mask, 2) = 1 THEN say(M2, hook, DEV_AUX, 0) ELSE M2

\* onMessageReceived(): the dispatcher
onMessageReceived(M, msg) ==
  LET id == getMessageID(msg)
      hi == getParamHi(msg)
      lo == getParamLo(msg)
      param == getParam(msg)
  IN  CASE id = MID_DEVICEINSERTED -> sayDevices(M, "onDeviceInserted", lo)
        [] id = MID_DEVICEREMOVED -> sayDevices(M, "onDeviceRemoved", lo)
        [] id = MID_FINISHEDUSBFILE -> say(M, "onFinishedFile", DEV_USB, param)
        [] id = MID_FINISHEDSDFILE -> say(M, "onFinishedFile", DEV_SDCARD, param)
        [] id = MID_FINISHEDFLASHFILE -> say(M, "onFinishedFile", DEV_FLASH, param)
        [] id = MID_INITCOMPLETE ->
             say(M, "onInitComplete",
                 bit(lo, 0) * 2 ^ DEV_USB + bit(lo, 1) * 2 ^ DEV_SDCARD
                   + bit(lo, 2) * 2 ^ DEV_AUX + bit(lo, 4) * 2 ^ DEV_FLASH, 0)
        [] id = MID_ERROR -> say(M, "onError", lo, 0)
        [] id = MID_ACK -> say(M, "onAck", 0, 0)
        [] id = MID_STATUS ->
             say(M, "onStatus",
                 CASE hi = 1 -> DEV_USB [] hi = 2 -> DEV_SDCARD [] OTHER -> DEV_SLEEP,
                 IF lo \in {0, 1, 2} THEN lo ELSE 3)
        [] id = MID_VOLUME -> say(M, "onVolume", lo, 0)
        [] id = MID_EQ -> say(M, "onEqualizer", lo, 0)
        [] id = MID_PLAYBACKSEQUENCE -> say(M, "onPlaybackSequence", lo, 0)
        [] id = MID_FIRMWAREVERSION -> say(M, "onFirmwareVersion", param, 0)
        [] id = MID_USBFILECOUNT -> say(M, "onDeviceFileCount", DEV_USB, param)
        [] id = MID_SDFILECOUNT -> say(M, "onDeviceFileCount", DEV_SDCARD, param)
        [] id = MID_FLASHFILECOUNT -> say(M, "onDeviceFileCount", DEV_FLASH, param)
        [] id = MID_CURRENTUSBFILE -> say(M, "onCurrentTrack", DEV_USB, param)
        [] id = MID_CURRENTSDFILE -> say(M, "onCurrentTrack", DEV_SDCARD, param)
        [] id = MID_CURRENTFLASHFILE -> say(M, "onCurrentTrack", DEV_FLASH, param)
        [] id = MID_FOLDERTRACKCOUNT -> say(M, "onFolderTrackCount", param, 0)
        [] id = MID_FOLDERCOUNT -> say(M, "onFolderCount", param, 0)
        [] OTHER -> M

\* receiveMessage() that does not look at isValid()
receiveMessage_unchecked(M, msg) ==
  LET M1 == onMessageReceived(M, msg)
  IN  IF M1.m_state = "null" THEN M1
      ELSE LET r == onEvent(follow(M1, getMessageID(msg), getParamHi(msg), getParamLo(msg)),
                            getMessageID(msg), getParamHi(msg), getParamLo(msg))
           IN  setState(r.mod, r.next)

\* receiveMessage() that gives a valid frame to the state before the dispatcher
receiveMessage_stateFirst(M, msg) ==
  IF ~isValid(msg) THEN say(onMessageReceived(M, msg), "onMessageInvalid", 0, 0)
  ELSE IF M.m_state = "null" THEN onMessageReceived(M, msg)
  ELSE LET r == onEvent(follow(M, getMessageID(msg), getParamHi(msg), getParamLo(msg)),
                        getMessageID(msg), getParamHi(msg), getParamLo(msg))
       IN  onMessageReceived(setState(r.mod, r.next), msg)

\* receiveMessage()
receiveMessage(M, msg) ==
  LET M1 == onMessageReceived(M, msg)
  IN  IF ~isValid(msg) THEN say(M1, "onMessageInvalid", 0, 0)
      ELSE IF M1.m_state = "null" THEN M1
      ELSE LET r == onEvent(follow(M1, getMessageID(msg), getParamHi(msg), getParamLo(msg)),
                            getMessageID(msg), getParamHi(msg), getParamLo(msg))
           IN  setState(r.mod, r.next)

\* checkForIncomingMessage(): the bytes available in the stream go to
\* m_in.receive() one by one; returns the module and m_in after the loop
RECURSIVE checkForIncomingMessage(_, _, _)
checkForIncomingMessage(M, in, bytes) ==
  IF bytes = <<>> THEN [mod |-> M, in |-> in]
  ELSE LET r == receive(in, Head(bytes))
       IN  checkForIncomingMessage(IF r.ret THEN receiveMessage(M, r.msg) ELSE M,
                                   r.msg, Tail(bytes))

\* checkForTimeout()
\* checkForTimeout() that leaves the expired deadline armed
checkForTimeout_keep(M) ==
  IF TimeoutExpired(M.m_timeout)
  THEN IF M.m_state # "null"
       THEN LET r == onEvent(follow(M, MID_ERROR, high(EC_TIMEDOUT), low(EC_TIMEDOUT)),
                             MID_ERROR, high(EC_TIMEDOUT), low(EC_TIMEDOUT))
            IN  setState(r.mod, r.next)
       ELSE M
  ELSE M

checkForTimeout(M) ==
  IF TimeoutExpired(M.m_timeout)
  THEN LET M1 == [M EXCEPT !.m_timeout = TimeoutCancel]
       IN  IF M1.m_state # "null"
           THEN LET r == onEvent(follow(M1, MID_ERROR, high(EC_TIMEDOUT), low(EC_TIMEDOUT)),
                                 MID_ERROR, high(EC_TIMEDOUT), low(EC_TIMEDOUT))
                IN  setState(r.mod, r.next)
           ELSE M1
  ELSE M

\* what a call starts from: nothing written, no hook called yet
Fresh == [Self EXCEPT !.tx = <<>>, !.notes = <<>>]

----------------------------------------------------------------------------
\* The bytes an update() call can find in the stream: nothing, one frame
\* (valid, with a wrong checksum, or short), stray bytes, or two frames.

Replies ==
  {<<MID_INITCOMPLETE, 2>>, <<MID_FIRMWAREVERSION, 8>>,
   <<MID_USBFILECOUNT, 0>>, <<MID_USBFILECOUNT, 261>>,
   <<MID_SDFILECOUNT, 0>>, <<MID_SDFILECOUNT, 261>>,
   <<MID_ACK, 0>>, <<MID_FOLDERCOUNT, 2>>, <<MID_FOLDERCOUNT, 258>>,
   <<MID_ERROR, 1>>, <<MID_ERROR, 256>>}

ValidFrames == {Desc("full", r[1], r[2], 0, 0) : r \in Replies}
BadFrames == {Desc("full", r[1], r[2], 0, 1) : r \in Replies \ {<<MID_USBFILECOUNT, 0>>,
                   <<MID_SDFILECOUNT, 0>>, <<MID_FOLDERCOUNT, 258>>, <<MID_ERROR, 1>>}}
ShortFrames == {Desc("short", MID_INITCOMPLETE, 2, 0, 0)}
Strays == {<<START, VERSION>>}
Pairs ==
  {<<Desc("full", MID_INITCOMPLETE, 2, 0, 0), Desc("full", MID_FIRMWAREVERSION, 8, 0, 0)>>}

Inputs ==
  {<<>>} \cup Strays
  \cup {frameBytes(d) : d \in ValidFrames \cup BadFrames \cup ShortFrames}
  \cup {concatFrames(ds) : ds \in Pairs}

\* the time grid: the clock advances by 5000 units while more than 200
\* remain to the deadline, else by 200
TickSteps(t) == IF t.left > 200 THEN {5000} ELSE {200}

\* the number of reset() calls a run makes
MaxResets == 2

\* the messages that receive() completes while the bytes are fed to `in`
RECURSIVE completed(_, _)
completed(in, bytes) ==
  IF bytes = <<>> THEN <<>>
  ELSE LET r == receive(in, Head(bytes))
       IN  (IF r.ret THEN <<r.msg>> ELSE <<>>) \o completed(r.msg, Tail(bytes))

\* the update() call completed exactly one frame, a valid one of this kind
oneValid(in, bytes, kind) ==
  LET c == completed(in, bytes)
  IN  Len(c) = 1 /\ isValid(c[1]) /\ getMessageID(c[1]) = kind

\* the response a bring-up state waits for
awaited(st) ==
  CASE st = "resetting_hardware" -> MID_INITCOMPLETE
    [] st = "getting_version" -> MID_FIRMWAREVERSION
    [] st = "checking_usb_file_count" -> MID_USBFILECOUNT
    [] st = "checking_sd_file_count" -> MID_SDFILECOUNT
    [] st \in {"selecting_usb", "selecting_sd"} -> MID_ACK
    [] st = "checking_folder_count" -> MID_FOLDERCOUNT

\* update() that examines the deadline before it drains the stream
Update_timeoutFirst(bytes) ==
  LET r == checkForIncomingMessage(checkForTimeout(Fresh), m_in, bytes)
  IN  /\ m_in' = r.in
      /\ Commit(r.mod)
      /\ last' = [Step("update", bytes) EXCEPT
                   !.late = /\ TimeoutExpired(m_timeout) /\ m_state # "null"
                            /\ oneValid(m_in, bytes, awaited(m_state))]
      /\ UNCHANGED <<resets, codecVars, sketchVars>>

\* update(), finding the bytes `bytes` available in the stream
Update(bytes) ==
  LET r == checkForIncomingMessage(Fresh, m_in, bytes)
  IN  /\ m_in' = r.in
      /\ Commit(checkForTimeout(r.mod))
      /\ last' = [Step("update", bytes) EXCEPT
                   !.late = /\ TimeoutExpired(m_timeout) /\ m_state # "null"
                            /\ oneValid(m_in, bytes, awaited(m_state))]
      /\ UNCHANGED <<resets, codecVars, sketchVars>>

\* reset()
Reset ==
  LET M == setState([Fresh EXCEPT !.visited = <<>>, !.happy = 0,
                                  !.seen = [usb |-> 0, folders |-> 0]],
                    "resetting_hardware")
  IN  /\ resets < MaxResets
      /\ resets' = resets + 1
      /\ last' = Step("reset", <<>>)
      /\ Commit([M EXCEPT !.visited = IF @ = <<>> THEN <<M.m_state>> ELSE @])
      /\ UNCHANGED <<m_in, codecVars, sketchVars>>

\* the clock advances by d
Tick(d) ==
  /\ m_timeout.armed /\ m_timeout.left > 0
  /\ m_timeout' = TimeoutAdvance(m_timeout, d)
  /\ tx' = <<>> /\ notes' = <<>>
  /\ last' = Step("tick", <<>>)
  /\ UNCHANGED <<m_in, m_out, m_state, m_source, m_files, m_folders,
                 visited, happy, seen, resets, codecVars, sketchVars>>

Init ==
  /\ Constructed
  /\ SketchIdle
  /\ plan = [noise |-> <<>>, frames |-> <<>>]
  /\ stream = <<>>
  /\ fed = 0
  /\ signals = <<>>

Next ==
  \/ Reset
  \/ \E bytes \in Inputs : Update(bytes)
  \/ \E d \in TickSteps(m_timeout) : Tick(d)

Spec == Init /\ [][Next]_vars

----------------------------------------------------------------------------
\* The public commands and queries, called by the sketch between update()s

Devices == {DEV_USB, DEV_SDCARD, DEV_AUX, DEV_SLEEP, DEV_FLASH}
\* enum Equalizer
Equalizers == 0..5
\* int volume
Volumes == {-32768, -5, -1, 0, 1, 15, 29, 30, 31, 999, 32767}
\* uint16_t folder, uint16_t track, uint16_t file_index
Folders == {0, 1, 15, 16, 99, 255, 256}
Tracks == {0, 1, 255, 256, 257, 3000, 3001, 65535}

NoArgCalls ==
  {"playNextFile", "playPreviousFile", "loopAllFiles", "playFilesInRandomOrder",
   "stopAdvert", "stop", "pause", "unpause", "sleep", "wake", "disableDACs",
   "enableDACs", "queryFolderCount", "queryStatus", "queryVolume", "queryEQ",
   "queryPlaybackSequence", "queryFirmwareVersion"}

Calls ==
  {Step(op, <<>>) : op \in NoArgCalls}
  \cup {Step(op, <<d>>) : op \in {"selectSource", "queryFileCount", "queryCurrentFile"},
                          d \in Devices}
  \cup {Step(op, <<t>>) : op \in {"playFile", "loopFile", "playTrackMP3", "insertAdvert"},
                          t \in {1, 3000}}
  \cup {Step("selectEQ", <<eq>>) : eq \in Equalizers}
  \cup {Step("setVolume", <<v>>) : v \in Volumes}
  \cup {Step("playTrack", <<f, t>>) : f \in Folders, t \in Tracks}

\* one public command or query is called
Call(c) ==
  /\ Commit(call(Fresh, c))
  /\ last' = c
  /\ UNCHANGED <<m_in, resets, codecVars, sketchVars>>

\* the calls on a module that was constructed and never reset
NextCalls == \E c \in Calls : Call(c)

SpecCalls == Init /\ [][NextCalls]_vars

\* the engine with calls between its update()s: the frames of a bring-up and
\* a few calls, one of them sending nothing
ApiReplies ==
  {<<MID_INITCOMPLETE, 2>>, <<MID_FIRMWAREVERSION, 8>>, <<MID_USBFILECOUNT, 261>>,
   <<MID_USBFILECOUNT, 0>>, <<MID_SDFILECOUNT, 3>>, <<MID_ACK, 0>>,
   <<MID_FOLDERCOUNT, 2>>, <<MID_ERROR, 1>>}

ApiInputs == {<<>>} \cup {frameBytes(Desc("full", r[1], r[2], 0, 0)) : r \in ApiReplies}

ApiCalls ==
  {Step("selectSource", <<DEV_SDCARD>>), Step("queryFileCount", <<DEV_USB>>),
   Step("setVolume", <<15>>), Step("playTrack", <<1, 1>>),
   Step("playTrack", <<16, 256>>)}

NextApi ==
  \/ Reset
  \/ \E bytes \in ApiInputs : Update(bytes)
  \/ \E d \in TickSteps(m_timeout) : Tick(d)
  \/ \E c \in ApiCalls : Call(c)

SpecApi == Init /\ [][NextApi]_vars

\* the dispatcher alone: update() finds one valid frame, a device event with
\* any mask or a frame of a kind the dispatcher has no case for, while no
\* bring-up is running
EventParams == 0..15 \cup {16, 248, 255, 261, 65535}
UnknownKinds == {0, 1, 57, 74, 80, 255}
EventInputs ==
  {frameBytes(Desc("full", k, p, 0, 0)) :
     k \in {MID_DEVICEINSERTED, MID_DEVICEREMOVED} \cup UnknownKinds, p \in EventParams}

NextEvents == \E bytes \in EventInputs : Update(bytes)

SpecEvents == Init /\ [][NextEvents]_vars

----------------------------------------------------------------------------
\* The other objects of the sketches, each driven on its own

audioVars == <<m_in, engineVars, codecVars>>

\* the audio module constructed and left alone
AudioIdle ==
  /\ Constructed
  /\ m_source = DEV_USB /\ m_files = 0 /\ m_folders = 0
  /\ plan = [noise |-> <<>>, frames |-> <<>>]
  /\ stream = <<>> /\ fed = 0 /\ signals = <<>>

\* a character arrives at the serial port
SerialArrives(ch) ==
  /\ Len(serial) < MaxPending
  /\ ch # NL => Len(heard.line) + Len(serial) < MaxLine
  /\ serial' = Append(serial, ch)
  /\ UNCHANGED <<cmd, heard, audioVars, foggerVars, encoderVars, timecodeVars>>

\* the sketch calls available()
Available ==
  LET r == available(cmd, serial, heard)
  IN  /\ cmd' = r.cmd /\ serial' = r.serial /\ heard' = r.heard
      /\ UNCHANGED <<audioVars, foggerVars, encoderVars, timecodeVars>>

InitCmd ==
  /\ AudioIdle /\ FoggerIdle /\ EncoderIdle /\ TimecodeIdle
  /\ \E fill \in {NUL, 97} : cmd = NewCommandBuffer(fill)
  /\ serial = <<>> /\ heard = NotHeard

NextCmd ==
  \/ \E ch \in Chars : SerialArrives(ch)
  \/ Available

SpecCmd == InitCmd /\ [][NextCmd]_vars

\* the fogger: the clock starts anywhere, also shortly before it wraps
\* (2^32 - 60000, 2^32 - 1000, 2^32 - 1), and advances between the calls
StartTimes == {W32(0, 0), W32(0, 5), W32(65535, 5536), W32(65535, 64536), W32(65535, 65535)}
Durations == {0, 1, 1000, 60000, 70000}
FogTicks == {1, 999, 1000, 59000, 60000}
MaxFogTicks == 4

\* the clock advances by d milliseconds
FogTick(d) ==
  /\ burst.ticks < MaxFogTicks
  /\ millis' = add32(millis, toU32(d))
  /\ burst' = [burst EXCEPT !.op = "tick", !.ticks = @ + 1, !.elapsed = @ + d, !.gap = @ + d]
  /\ UNCHANGED <<fogger, audioVars, cmdVars, encoderVars, timecodeVars>>

\* the sketch calls on(duration)
FogOn(duration) ==
  /\ fogger' = on(fogger, millis, duration)
  /\ burst' = IF fogger.m_timeout = toU32(0)
              THEN [burst EXCEPT !.op = "on", !.active = TRUE, !.elapsed = 0, !.gap = 0,
                                 !.steady = TRUE,
                                 !.length = IF duration > MAX_BURST THEN MAX_BURST ELSE duration]
              ELSE [burst EXCEPT !.op = "on"]
  /\ UNCHANGED <<millis, audioVars, cmdVars, encoderVars, timecodeVars>>

\* the sketch calls update()
FogUpdate ==
  /\ fogger' = fogUpdate(fogger, millis)
  /\ burst' = [burst EXCEPT !.op = "update", !.gap = 0,
                            !.steady = @ /\ burst.gap <= MAX_BURST,
                            !.active = @ /\ fogger'.relay]
  /\ UNCHANGED <<millis, audioVars, cmdVars, encoderVars, timecodeVars>>

\* the sketch calls off()
FogOff ==
  /\ fogger' = off(fogger)
  /\ burst' = [burst EXCEPT !.op = "off", !.active = FALSE]
  /\ UNCHANGED <<millis, audioVars, cmdVars, encoderVars, timecodeVars>>

InitFog ==
  /\ AudioIdle /\ CmdIdle /\ EncoderIdle /\ TimecodeIdle
  /\ fogger = NewFogger /\ burst = NoBurst
  /\ millis \in StartTimes

NextFog ==
  \/ \E d \in FogTicks : FogTick(d)
  \/ \E duration \in Durations : FogOn(duration)
  \/ FogUpdate
  \/ FogOff

SpecFog == InitFog /\ [][NextFog]_vars

\* the rotary encoder: the shaft moves the pins one at a time (a valid
\* quadrature step) or both at once, the sketch polls update()
MaxSteps == 12

\* the pins take the levels a and b
PinsChange(a, b) ==
  /\ <<a, b>> # <<pins.a, pins.b>>
  /\ pins' = [a |-> a, b |-> b]
  /\ turn' = [turn EXCEPT !.op = "pins"]
  /\ UNCHANGED <<encoder, audioVars, cmdVars, foggerVars, timecodeVars>>

\* the sketch calls update()
EncUpdate ==
  LET r == encUpdate(encoder, pins)
      moved == (encoder.m_state % 4) # 2 * pins.a + pins.b
      way == IF r.delta = 1 THEN "cw" ELSE IF r.delta = -1 THEN "ccw" ELSE "mixed"
  IN  /\ turn.steps < MaxSteps
      /\ encoder' = r.enc
      /\ turn' = [turn EXCEPT
                    !.op = "update", !.ret = r.ret,
                    !.steps = IF moved THEN @ + 1 ELSE @,
                    !.dir = IF ~moved THEN @
                            ELSE IF @ \in {"none", way} THEN way ELSE "mixed",
                    !.had = @ \/ r.ret,
                    !.prev = IF r.ret THEN encCount(r.enc) ELSE @]
      /\ UNCHANGED <<pins, audioVars, cmdVars, foggerVars, timecodeVars>>

\* the sketch calls reset()
EncReset ==
  /\ encoder' = [encoder EXCEPT !.m_raw_count = 0]
  /\ turn' = [NoTurn EXCEPT !.op = "reset"]
  /\ UNCHANGED <<pins, audioVars, cmdVars, foggerVars, timecodeVars>>

InitEnc ==
  /\ AudioIdle /\ CmdIdle /\ FoggerIdle /\ TimecodeIdle
  /\ encoder = NewEncoder /\ pins = [a |-> 0, b |-> 0] /\ turn = NoTurn

NextEnc ==
  \/ \E a, b \in {0, 1} : PinsChange(a, b)
  \/ EncUpdate
  \/ EncReset

SpecEnc == InitEnc /\ [][NextEnc]_vars

\* the timecode reader: the clock track delivers a sync word, the four data
\* words of a frame (25 frames, 59 seconds, 37 minutes, 12 hours), the next
\* sync word and the first data word of the next frame, least significant
\* bit first, a 1 as two edges half a bit period apart and a 0 as one edge
Tape == <<sync_word, 517, 1289, 775, 258, sync_word, 521>>
MaxLate == 1

\* timecodeInterrupt() runs for the edge that is due; the edge comes on time
\* or, the first edge of a word, too late to be half a bit or a bit
TimecodeInterrupt(timing) ==
  /\ clock.word <= Len(Tape)
  /\ timing = "late" => clock.late < MaxLate /\ clock.bit = 0 /\ clock.half = 0
  /\ LET one == hasBit(Tape[clock.word], 2 ^ clock.bit)
         r == timecodeInterrupt(tc, IF timing = "late" THEN "late"
                                    ELSE IF one THEN "half" ELSE "full")
         endOfBit == ~one \/ clock.half = 1
         handed == r.full /\ r.tc.ready
     IN  /\ tc' = r.tc
         /\ clock' = [clock EXCEPT
                        !.half = IF endOfBit THEN 0 ELSE 1,
                        !.bit = IF endOfBit THEN (@ + 1) % 16 ELSE @,
                        !.word = IF endOfBit /\ clock.bit = 15 THEN @ + 1 ELSE @,
                        !.late = IF timing = "late" THEN @ + 1 ELSE @,
                        !.seq = IF handed THEN @ + 1 ELSE @,
                        !.val = IF handed THEN r.tc.data ELSE @]
  /\ UNCHANGED <<upd, audioVars, cmdVars, foggerVars, encoderVars>>

\* update() is called: noInterrupts(); local_ready = ready; ready = false;
\* interrupts(); if (!local_ready) return false;
UpdateEnter ==
  /\ upd.pc = "idle"
  /\ tc' = [tc EXCEPT !.ready = FALSE]
  /\ upd' = IF tc.ready
            THEN [NotUpdating EXCEPT !.pc = "compare", !.op = "enter",
                    !.token = [seq |-> clock.seq, val |-> clock.val]]
            ELSE [NotUpdating EXCEPT !.op = "return"]
  /\ UNCHANGED <<clock, audioVars, cmdVars, foggerVars, encoderVars>>

\* update() loads one byte of data, the low or the high one first
UpdateLoad(h) ==
  /\ upd.pc \in {"compare", "field"}
  /\ upd.part = "none"
  /\ upd' = [upd EXCEPT !.op = "load", !.part = h,
               !.latch = IF h = "lo" THEN tc.data % 256 ELSE tc.data \div 256]
  /\ UNCHANGED <<tc, clock, audioVars, cmdVars, foggerVars, encoderVars>>

\* the value update() has when it loads the other byte of data
loaded ==
  IF upd.part = "lo" THEN upd.latch + 256 * (tc.data \div 256)
  ELSE 256 * upd.latch + (tc.data % 256)

\* the last MaxKinds kinds of words processed
MaxKinds == 6
recent(kinds) == IF Len(kinds) > MaxKinds THEN Tail(kinds) ELSE kinds

\* update() loads the other byte of data and uses the value: the comparison
\* with the sync word and switch (count++), or a statement of the case
UpdateUse ==
  /\ upd.part # "none"
  /\ LET v == loaded
         read == [upd EXCEPT !.part = "none", !.latch = 0]
         return(b) == [NotUpdating EXCEPT !.op = "return", !.ret = b]
     IN  IF upd.pc = "compare"
         THEN /\ clock' = [clock EXCEPT !.done = clock.seq,
                             !.kinds = recent(Append(@, v = sync_word))]
              /\ IF v = sync_word
                 THEN /\ tc' = [tc EXCEPT !.count = 0]
                      /\ upd' = return(tc.count = 4)
                 ELSE /\ tc' = [tc EXCEPT !.count = (@ + 1) % 256]
                      /\ upd' = IF fields(tc.count) = 0 THEN return(FALSE)
                                ELSE [read EXCEPT !.pc = "field", !.op = "use",
                                                  !.n = tc.count, !.k = 1]
         ELSE /\ tc' = [tc EXCEPT !.buffer = store_field(@, upd.n, upd.k, v)]
              /\ upd' = IF upd.k = fields(upd.n) THEN return(FALSE)
                        ELSE [read EXCEPT !.op = "use", !.k = @ + 1]
              /\ UNCHANGED clock
  /\ UNCHANGED <<audioVars, cmdVars, foggerVars, encoderVars>>

InitTc ==
  /\ AudioIdle /\ CmdIdle /\ FoggerIdle /\ EncoderIdle
  /\ tc = NewTimecode /\ upd = NotUpdating /\ clock = NewClock

NextTc ==
  \/ \E timing \in {"due", "late"} : TimecodeInterrupt(timing)
  \/ UpdateEnter
  \/ \E h \in {"lo", "hi"} : UpdateLoad(h)
  \/ UpdateUse

SpecTc == InitTc /\ [][NextTc]_vars

----------------------------------------------------------------------------
\* Properties of the codec (checked under SpecCodec)

isSingle(p) == p.noise = <<>> /\ Len(p.frames) = 1 /\ p.frames[1].form = "full"

\* the 16-bit checksum carried by a 10-byte frame on the wire
wireChecksum(w) == w[8] * 256 + w[9]
\* the sum of the bytes version, length, kind, feedback, param-hi, param-lo
wireSum6(w) == w[2] + w[3] + w[4] + w[5] + w[6] + w[7]
\* the sum of the bytes kind, feedback, param-hi, param-lo
wireSum4(w) == w[4] + w[5] + w[6] + w[7]

\* C1: the 10 bytes of Message::set(kind, param, feedback), given one at a
\* time to a fresh receiver, make receive() return false nine times and true
\* on the tenth byte, and then getMessageID() = kind, getParam() = param and
\* isValid() holds.
C1_RoundTrip ==
  (isSingle(plan) /\ plan.frames[1].skew = 0) =>
     LET d == plan.frames[1]
     IN  /\ fed < 10 => signals = <<>>
         /\ fed = 10 => signals = <<[at |-> 10, kind |-> d.kind, param |-> d.param,
                                     length |-> 10, valid |-> TRUE]>>

C1_Witness ==
  /\ isSingle(plan) /\ plan.frames[1].skew = 0
  /\ plan.frames[1].kind = 239 /\ plan.frames[1].param = 32495 /\ plan.frames[1].fb = FEEDBACK
  /\ fed = 10 /\ Len(signals) = 1

\* C2 (as stated): the checksum of an encoded frame is the two's complement
\* of the 16-bit sum of the four bytes kind, feedback, param-hi, param-lo,
\* and a received 10-byte frame is valid iff that sum plus its checksum is 0
\* modulo 2^16.
C2_FourByteChecksum ==
  isSingle(plan) =>
     LET d == plan.frames[1]
         w == frameBytes(d)
     IN  (fed = 10 /\ Len(signals) = 1) =>
            /\ d.skew = 0 => wireChecksum(w) = U16(65536 - U16(wireSum4(w)))
            /\ signals[1].valid <=> U16(wireSum4(w) + wireChecksum(w)) = 0

\* C2 (amended): the checksum of an encoded frame is the two's complement of
\* the 16-bit sum of the six bytes at offsets 1..6 (version, length, kind,
\* feedback, param-hi, param-lo), and a received 10-byte frame is valid iff
\* that six-byte sum plus its checksum is 0 modulo 2^16.
C2_SixByteChecksum ==
  isSingle(plan) =>
     LET d == plan.frames[1]
         w == frameBytes(d)
     IN  /\ d.skew = 0 => wireChecksum(w) = U16(65536 - U16(wireSum6(w)))
         /\ fed = 10 => /\ Len(signals) = 1
                        /\ signals[1].valid <=> U16(wireSum6(w) + wireChecksum(w)) = 0

C2_Witness ==
  /\ isSingle(plan) /\ plan.frames[1].skew = 261
  /\ fed = 10 /\ Len(signals) = 1 /\ ~signals[1].valid

\* the 10 bytes w are a frame of Message::set with one payload byte replaced:
\* putting some other value back at one of the offsets 3..6 gives a frame
\* whose feedback byte is a Feedback value and whose checksum is right
oneByteOff(w) ==
  \E o \in 4..7, v \in Byte :
     /\ v # w[o]
     /\ LET u == [w EXCEPT ![o] = v]
        IN  /\ u[5] \in {NO_FEEDBACK, FEEDBACK}
            /\ U16(wireSum6(u) + wireChecksum(u)) = 0

\* C17: a frame of Message::set in which one payload byte (offsets 3..6) was
\* replaced by a different value, given to a fresh receiver, is completed on
\* its tenth byte and isValid() is false for it.
C17_CorruptPayloadRejected ==
  (isSingle(plan) /\ fed = 10 /\ oneByteOff(planBytes(plan))) =>
     /\ Len(signals) = 1
     /\ signals[1].at = 10
     /\ ~signals[1].valid

C17_Witness ==
  /\ plan = [noise |-> <<>>,
             frames |-> <<corrupt(Desc("full", MID_INITCOMPLETE, 255, FEEDBACK, 0), 6, END)>>]
  /\ planBytes(plan) = <<START, VERSION, LENGTH, MID_INITCOMPLETE, FEEDBACK, 0, END, 253, 188, END>>
  /\ fed = 10 /\ Len(signals) = 1 /\ ~signals[1].valid

isNoisy(p) == Len(p.frames) = 1 /\ p.frames[1] \in NoisyFrames /\ ~hasSOF(p.noise)

\* C4: noise bytes that do not contain START VERSION LENGTH, followed by one
\* valid 10-byte frame: receive() returns true exactly once, on the last
\* byte of the frame, and the kind and parameter read then are the frame's.
C4_Resync ==
  isNoisy(plan) =>
     LET d == plan.frames[1]
     IN  signals = IF fed = Len(plan.noise) + 10
                   THEN <<[at |-> fed, kind |-> d.kind, param |-> d.param,
                           length |-> 10, valid |-> TRUE]>>
                   ELSE <<>>

C4_Witness ==
  /\ isNoisy(plan) /\ plan.noise = <<START, VERSION, START>>
  /\ stream = <<>> /\ Len(signals) = 1

isTrain(p) == p.noise = <<>> /\ \A i \in 1..Len(p.frames) : p.frames[i] \in TrainFrames

RECURSIVE expectSignals(_, _)
expectSignals(fs, base) ==
  IF fs = <<>> THEN <<>>
  ELSE LET n == Len(frameBytes(Head(fs)))
       IN  <<[at |-> base + n, kind |-> Head(fs).kind, param |-> Head(fs).param]>>
           \o expectSignals(Tail(fs), base + n)

\* C5: for a stream made only of well-formed frames back to back (10-byte
\* checksummed frames and 8-byte frames), receive() returns true exactly once
\* per frame, on that frame's last byte, with that frame's kind and parameter.
C5_EveryFrameSignalled ==
  (isTrain(plan) /\ stream = <<>>) =>
     [i \in 1..Len(signals) |->
        [at |-> signals[i].at, kind |-> signals[i].kind, param |-> signals[i].param]]
       = expectSignals(plan.frames, 0)

\* C6: whenever receive() reports a completed frame because END arrived at
\* offset 7, isValid() is true for that frame.
C6_ShortFrameValid ==
  \A i \in 1..Len(signals) : signals[i].length = 8 => signals[i].valid

----------------------------------------------------------------------------
\* Properties of the engine (checked under Spec)

\* the bytes complete at least one frame and every completed frame is invalid
onlyInvalid(in, bytes) ==
  LET c == completed(in, bytes)
  IN  c # <<>> /\ \A i \in 1..Len(c) : ~isValid(c[i])

\* the lines printed by the states, as opposed to the hooks of the sink
Prints == {"Resetting hardware.", "No response from audio module", "Audio module initialized."}
hooks(ns) == SelectSeq(ns, LAMBDA n : n.hook \notin Prints)

HappyTrail ==
  <<"resetting_hardware", "getting_version", "checking_usb_file_count",
    "selecting_usb", "checking_folder_count", "null">>

\* C3: after reset(), a valid init-complete frame, a firmware-version
\* response, a USB file-count response with nonzero count, an ack and a
\* folder-count response, in this order, drive the state through
\* resetting-hardware, getting-version, checking-USB-file-count,
\* selecting-USB, checking-folder-count and terminal, and end with selected
\* device USB, file count the reported USB count and folder count the
\* reported folder count.
C3_HappyPath ==
  happy = 5 =>
     /\ visited = HappyTrail
     /\ m_state = "null"
     /\ m_source = DEV_USB
     /\ m_files = seen.usb
     /\ m_folders = seen.folders

\* C7: a completed frame that fails validation produces the invalid-message
\* notification and no other notification.
C7_OnlyValidFramesNotified ==
  [][(last'.op = "update" /\ onlyInvalid(m_in, last'.bytes)) =>
        \A i \in 1..Len(hooks(notes')) : hooks(notes')[i].hook = "onMessageInvalid"]_vars

\* C8: a completed frame that fails isValid() leaves the active state, the
\* session counters and the armed deadline unchanged and causes no bytes to
\* be transmitted, in every bring-up state and whatever its message kind.
C8_InvalidNotActedOn ==
  [][(/\ last'.op = "update"
      /\ onlyInvalid(m_in, last'.bytes)
      /\ ~TimeoutExpired(m_timeout)) =>
        /\ m_state' = m_state
        /\ m_source' = m_source /\ m_files' = m_files /\ m_folders' = m_folders
        /\ m_timeout' = m_timeout
        /\ tx' = <<>>]_vars

C8_Witness ==
  /\ m_state = "selecting_usb"
  /\ m_in.m_length = 10 /\ getMessageID(m_in) = MID_ACK /\ ~isValid(m_in)
  /\ notes # <<>> /\ notes[Len(notes)].hook = "onMessageInvalid"
  /\ m_timeout = TimeoutSet(200)

\* C9: reset(), called in any bring-up state or in terminal, leaves the
\* engine in resetting-hardware having transmitted one reset command frame
\* (kind 0x0C) and armed the 10000-unit deadline.
C9_ResetRestarts ==
  [][last'.op = "reset" =>
       /\ m_state' = "resetting_hardware"
       /\ Len(tx') = 1 /\ tx'[1][4] = MID_RESET
       /\ m_timeout' = TimeoutSet(10000)]_vars

\* a valid frame of one of the kinds is among the completed ones
hasValid(in, bytes, kinds) ==
  LET c == completed(in, bytes)
  IN  \E i \in 1..Len(c) : isValid(c[i]) /\ getMessageID(c[i]) \in kinds

NoResponse == Note("No response from audio module", 0, 0)

silentExpiry(op, in, bytes, t) ==
  op = "update" /\ TimeoutExpired(t) /\ completed(in, bytes) = <<>>

\* C11: in every bring-up state, when the module stops answering and the
\* armed deadline expires, the timeout delivered by update() makes the chain
\* advance or terminate: the state is left.
C11_TimeoutLeavesEveryState ==
  [][(silentExpiry(last'.op, m_in, last'.bytes, m_timeout) /\ m_state # "null") =>
        m_state' # m_state]_vars

\* C12: whenever update() finds the deadline expired, the sink receives an
\* error notification carrying TIMED-OUT, while a bring-up state is active
\* and after bring-up has finished.
C12_TimeoutReachesSink ==
  [][silentExpiry(last'.op, m_in, last'.bytes, m_timeout) =>
        \E i \in 1..Len(notes') : notes'[i] = Note("onError", EC_TIMEDOUT, 0)]_vars

\* C13: no inbound bytes make a state take its timeout transition (while the
\* deadline has not expired, getting-version is left only on a firmware-
\* version response), and the error code the state machine sees for an
\* inbound error frame is the code forwarded to the sink.
C13_TimedOutIsLocal ==
  /\ [][(/\ last'.op = "update"
         /\ m_state = "getting_version" /\ ~TimeoutExpired(m_timeout)
         /\ ~hasValid(m_in, last'.bytes, {MID_FIRMWAREVERSION})) =>
           m_state' = "getting_version"]_vars
  /\ [][(last'.op = "update" /\ oneValid(m_in, last'.bytes, MID_ERROR)) =>
           LET msg == completed(m_in, last'.bytes)[1]
           IN  \E i \in 1..Len(notes') :
                  notes'[i] = Note("onError", combine(getParamHi(msg), getParamLo(msg)), 0)]_vars

\* the state that follows st once its response, with this parameter, is handled
answered(st, param) ==
  CASE st = "resetting_hardware" -> "getting_version"
    [] st = "getting_version" -> "checking_usb_file_count"
    [] st = "checking_usb_file_count" ->
         IF param > 0 THEN "selecting_usb" ELSE "checking_sd_file_count"
    [] st = "checking_sd_file_count" -> IF param > 0 THEN "selecting_sd" ELSE "null"
    [] st \in {"selecting_usb", "selecting_sd"} -> "checking_folder_count"
    [] st = "checking_folder_count" -> "null"

\* C16: update() drains the inbound bytes and dispatches the completed frame
\* before it examines the deadline, and examines it once: when the awaited
\* response and the expiry of its deadline are both pending, the response is
\* handled (one transition, to the state that follows the response) and, if
\* handling it sent a frame, no timeout event is delivered in that call: the
\* deadline is the 200 units of that frame; a silent expiry is one event.
C16_ResponseBeforeTimeout ==
  /\ [][(/\ last'.op = "update" /\ m_state # "null" /\ TimeoutExpired(m_timeout)
         /\ oneValid(m_in, last'.bytes, awaited(m_state))) =>
           LET msg == completed(m_in, last'.bytes)[1]
           IN  /\ m_state' = answered(m_state, getParam(msg))
               /\ visited' = Append(visited, m_state')
               /\ \A i \in 1..Len(notes') : notes'[i] # NoResponse
               /\ IF m_state' = "null"
                  THEN tx' = <<>> /\ ~m_timeout'.armed
                  ELSE Len(tx') = 1 /\ m_timeout' = TimeoutSet(200)]_vars
  /\ [][(silentExpiry(last'.op, m_in, last'.bytes, m_timeout) /\ m_state # "null") =>
           /\ Len(visited') <= Len(visited) + 1
           /\ Len(tx') <= 1
           /\ m_timeout' = IF tx' = <<>> THEN TimeoutCancel ELSE TimeoutSet(200)]_vars

C16_Witness ==
  /\ last.op = "update" /\ last.late
  /\ oneValid(NewMessage, last.bytes, MID_INITCOMPLETE)
  /\ m_state = "getting_version" /\ visited = <<"resetting_hardware", "getting_version">>
  /\ Len(tx) = 1 /\ tx[1][4] = MID_FIRMWAREVERSION
  /\ m_timeout = TimeoutSet(200)

\* the hook the dispatcher calls for a frame of this kind
hookOf(kind) ==
  CASE kind = MID_INITCOMPLETE -> "onInitComplete"
    [] kind = MID_FIRMWAREVERSION -> "onFirmwareVersion"
    [] kind \in {MID_USBFILECOUNT, MID_SDFILECOUNT} -> "onDeviceFileCount"
    [] kind = MID_ACK -> "onAck"
    [] kind = MID_FOLDERCOUNT -> "onFolderCount"
    [] kind = MID_ERROR -> "onError"

\* C23: a valid frame received while a bring-up state is active is given, in
\* the same update(), to the dispatcher first (its hook is the first thing
\* called, and the only hook) and to the state (the awaited response makes
\* the state's transition); a valid frame that the state does not act on
\* shows that the dispatcher changes neither the state, the counters nor the
\* deadline and transmits nothing.
C23_BothConsumersSeeFrame ==
  [][(last'.op = "update" /\ m_state # "null" /\ ~TimeoutExpired(m_timeout)) =>
        LET c == completed(m_in, last'.bytes)
        IN  (Len(c) = 1 /\ isValid(c[1])) =>
               LET k == getMessageID(c[1])
               IN  /\ notes' # <<>> /\ notes'[1].hook = hookOf(k)
                   /\ Len(hooks(notes')) = 1
                   /\ IF k = awaited(m_state)
                      THEN m_state' = answered(m_state, getParam(c[1]))
                      ELSE k # MID_ERROR =>
                             /\ m_state' = m_state
                             /\ m_source' = m_source /\ m_files' = m_files
                             /\ m_folders' = m_folders
                             /\ m_timeout' = m_timeout
                             /\ tx' = <<>>]_vars

C23_Witness ==
  /\ last.op = "update" /\ oneValid(NewMessage, last.bytes, MID_FOLDERCOUNT)
  /\ m_state = "null" /\ visited = HappyTrail
  /\ Len(notes) = 2
  /\ notes[1].hook = "onFolderCount" /\ notes[2].hook = "Audio module initialized."

----------------------------------------------------------------------------
\* Properties of the engine with calls (checked under SpecApi)

\* C14: once there is no active state, no inbound frame, no timeout and no
\* public command or query call (selectSource included) changes the state
\* pointer, the selected device, the file count or the folder count, and
\* update() transmits nothing; reset() leaves terminal for resetting-hardware.
C14_TerminalAbsorbing ==
  [][m_state = "null" =>
       IF last'.op = "reset" THEN m_state' = "resetting_hardware"
       ELSE /\ m_state' = "null"
            /\ m_source' = m_source /\ m_files' = m_files /\ m_folders' = m_folders
            /\ last'.op = "update" => tx' = <<>>]_vars

C14_Witness ==
  /\ m_state = "null" /\ visited = HappyTrail
  /\ last = Step("selectSource", <<DEV_SDCARD>>) /\ Len(tx) = 1
  /\ m_source = DEV_USB /\ m_files = 261 /\ m_folders = 2

\* C15: after any step that transmits, the deadline is armed at 200 time
\* units, except that it is armed at 10000 when the frame last transmitted
\* is the reset command sent on entering resetting-hardware.
C15_SendArmsDeadline ==
  [][tx' # <<>> =>
       m_timeout' = TimeoutSet(IF tx'[Len(tx')][4] = MID_RESET THEN 10000 ELSE 200)]_vars

C15_Witness ==
  /\ last.op = "reset" /\ m_state = "resetting_hardware"
  /\ Len(tx) = 1 /\ tx[1][4] = MID_RESET
  /\ m_timeout = TimeoutSet(10000)

\* C21: a playTrack(folder, track) call whose values fit neither encoding
\* (track >= 256 and folder >= 16 or track > 3000) writes no byte, leaves the
\* deadline as it was (neither set nor cancelled) and leaves the bring-up
\* state and the outbound frame buffer unchanged.
C21_PlayTrackNoOp ==
  [][(/\ last'.op = "playTrack"
      /\ last'.bytes[2] >= 256
      /\ (last'.bytes[1] >= 16 \/ last'.bytes[2] > 3000)) =>
        /\ tx' = <<>>
        /\ m_timeout' = m_timeout
        /\ m_state' = m_state
        /\ m_out' = m_out]_vars

C21_Witness ==
  /\ last = Step("playTrack", <<16, 256>>)
  /\ m_state = "resetting_hardware"
  /\ m_timeout = [armed |-> TRUE, left |-> 5000]
  /\ getMessageID(m_out) = MID_RESET
  /\ tx = <<>>

----------------------------------------------------------------------------
\* Properties of the commands (checked under SpecCalls)

\* the kind and the 16-bit parameter of a 10-byte frame on the wire
wireKind(w) == w[4]
wireParam(w) == w[6] * 256 + w[7]

\* C18: setVolume(v) transmits exactly one set-volume frame (kind 0x06)
\* whose parameter is min(max(v, 0), 30).
C18_VolumeClamped ==
  last.op = "setVolume" =>
     LET v == last.bytes[1]
     IN  /\ Len(tx) = 1 /\ Len(tx[1]) = 10
         /\ wireKind(tx[1]) = 6
         /\ wireParam(tx[1]) = IF v < 0 THEN 0 ELSE IF v > 30 THEN 30 ELSE v

C18_Witness ==
  /\ last = Step("setVolume", <<-5>>)
  /\ Len(tx) = 1 /\ wireKind(tx[1]) = 6 /\ wireParam(tx[1]) = 0

\* C19: playTrack(folder, track) with track < 256 transmits exactly one
\* play-from-folder frame (kind 0x0F) with the 16-bit parameter
\* folder<<8 | track; with 256 <= track <= 3000 and folder < 16 exactly one
\* play-from-big-folder frame (kind 0x14) with parameter folder<<12 | track.
C19_TrackAddressing ==
  last.op = "playTrack" =>
     LET folder == last.bytes[1]
         track == last.bytes[2]
     IN  /\ track < 256 =>
              /\ Len(tx) = 1 /\ wireKind(tx[1]) = 15
              /\ wireParam(tx[1]) = ((folder * 256) % 65536) + track
         /\ (256 <= track /\ track <= 3000 /\ folder < 16) =>
              /\ Len(tx) = 1 /\ wireKind(tx[1]) = 20
              /\ wireParam(tx[1]) = folder * 4096 + track

C19_Witness ==
  /\ last = Step("playTrack", <<15, 256>>)
  /\ Len(tx) = 1 /\ wireKind(tx[1]) = 20 /\ wireParam(tx[1]) = 61696

\* C20 (as stated): playTrack transmits no frame when the folder number is 16
\* or greater, whatever the track, and when the track is above 3000.
C20_NoFrameFromFolder16 ==
  last.op = "playTrack" =>
     LET folder == last.bytes[1]
         track == last.bytes[2]
     IN  (folder >= 16 \/ track > 3000) => tx = <<>>

\* C20 (amended): playTrack transmits no frame exactly when the track is 256
\* or greater and the folder is 16 or greater or the track above 3000; with a
\* track below 256 the play-from-folder frame is transmitted whatever the
\* folder (folder 16, track 1 gives parameter 0x1001).
C20_NoFrameOutOfRange ==
  last.op = "playTrack" =>
     LET folder == last.bytes[1]
         track == last.bytes[2]
     IN  /\ tx = <<>> <=> (track >= 256 /\ (folder >= 16 \/ track > 3000))
         /\ (folder = 16 /\ track = 1) => wireParam(tx[1]) = 4097

C20_Witness ==
  /\ last = Step("playTrack", <<16, 1>>)
  /\ Len(tx) = 1 /\ wireKind(tx[1]) = 15 /\ wireParam(tx[1]) = 4097

\* the feedback byte of a frame on the wire
wireFeedback(w) == w[5]

QueryOps ==
  {"queryStatus", "queryVolume", "queryEQ", "queryPlaybackSequence",
   "queryFirmwareVersion", "queryFileCount", "queryCurrentFile", "queryFolderCount"}

CommandOps ==
  {"playFile", "playTrack", "playTrackMP3", "loopFile", "loopAllFiles", "playNextFile",
   "playPreviousFile", "playFilesInRandomOrder", "stop", "pause", "unpause",
   "setVolume", "selectEQ", "selectSource", "sleep", "wake", "enableDACs",
   "disableDACs", "insertAdvert", "stopAdvert"}

\* C22: every frame sent by a query operation carries feedback flag 0 and
\* every frame sent by a command operation carries feedback flag 1; every
\* public operation is one or the other.
C22_FeedbackPolicy ==
  /\ \A c \in Calls : c.op \in QueryOps \cup CommandOps
  /\ \A i \in 1..Len(tx) :
        /\ last.op \in QueryOps => wireFeedback(tx[i]) = 0
        /\ last.op \in CommandOps => wireFeedback(tx[i]) = 1

C22_Witness ==
  /\ last = Step("queryCurrentFile", <<DEV_FLASH>>)
  /\ Len(tx) = 1 /\ wireKind(tx[1]) = MID_CURRENTFLASHFILE /\ wireFeedback(tx[1]) = 0

----------------------------------------------------------------------------
\* Properties of the bring-up states

\* a valid error frame whose 16-bit code is `code` is among the completed ones
hasError(c, code) ==
  \E i \in 1..Len(c) :
     isValid(c[i]) /\ getMessageID(c[i]) = MID_ERROR /\ getParam(c[i]) = code

\* a valid frame of this kind is among the completed ones
hasKind(c, kind) ==
  \E i \in 1..Len(c) : isValid(c[i]) /\ getMessageID(c[i]) = kind

\* tx is one frame, of this kind, parameter and feedback flag
sentOnly(t, kind, param, fb) ==
  /\ Len(t) = 1 /\ Len(t[1]) = 10
  /\ wireKind(t[1]) = kind /\ wireParam(t[1]) = param /\ wireFeedback(t[1]) = fb

isOne(c, kind) == Len(c) = 1 /\ isValid(c[1]) /\ getMessageID(c[1]) = kind

\* C25: in checking-USB-file-count a USB file-count response with count > 0
\* moves the engine to selecting-USB and transmits select-source with
\* parameter 1; a response with count 0, an error frame of any code or a
\* timeout moves it to checking-SD-file-count and transmits the SD
\* file-count query; a response sets the file count to its 16-bit count.
C25_CheckingUSB ==
  [][(last'.op = "update" /\ m_state = "checking_usb_file_count") =>
        LET c == completed(m_in, last'.bytes)
        IN  /\ isOne(c, MID_USBFILECOUNT) =>
                 /\ m_files' = getParamHi(c[1]) * 256 + getParamLo(c[1])
                 /\ IF m_files' > 0
                    THEN /\ m_state' = "selecting_usb"
                         /\ sentOnly(tx', MID_SELECTSOURCE, 1, FEEDBACK)
                    ELSE /\ m_state' = "checking_sd_file_count"
                         /\ sentOnly(tx', MID_SDFILECOUNT, 0, NO_FEEDBACK)
            /\ (isOne(c, MID_ERROR) \/ (c = <<>> /\ TimeoutExpired(m_timeout))) =>
                 /\ m_state' = "checking_sd_file_count"
                 /\ sentOnly(tx', MID_SDFILECOUNT, 0, NO_FEEDBACK)
                 /\ m_files' = m_files]_vars

C25_Witness ==
  /\ last.op = "update" /\ isOne(completed(NewMessage, last.bytes), MID_USBFILECOUNT)
  /\ m_state = "selecting_usb" /\ m_files = 261
  /\ sentOnly(tx, MID_SELECTSOURCE, 1, FEEDBACK)

\* C26: in checking-SD-file-count an SD file-count response with count > 0
\* moves the engine to selecting-SD and transmits select-source with
\* parameter 2; a response with count 0, an error frame of any code or a
\* timeout ends bring-up in terminal with nothing transmitted and the
\* selected device not written.
C26_CheckingSD ==
  [][(last'.op = "update" /\ m_state = "checking_sd_file_count") =>
        LET c == completed(m_in, last'.bytes)
            count == getParamHi(c[1]) * 256 + getParamLo(c[1])
        IN  /\ (isOne(c, MID_SDFILECOUNT) /\ count > 0) =>
                 /\ m_state' = "selecting_sd"
                 /\ m_files' = count
                 /\ sentOnly(tx', MID_SELECTSOURCE, 2, FEEDBACK)
            /\ (\/ isOne(c, MID_SDFILECOUNT) /\ count = 0
                \/ isOne(c, MID_ERROR)
                \/ c = <<>> /\ TimeoutExpired(m_timeout)) =>
                 /\ m_state' = "null"
                 /\ tx' = <<>>
                 /\ m_source' = m_source]_vars

C26_Witness ==
  /\ m_state = "null" /\ Len(visited) >= 2
  /\ visited[Len(visited) - 1] = "checking_sd_file_count"
  /\ last.op = "update" /\ isOne(completed(NewMessage, last.bytes), MID_SDFILECOUNT)
  /\ getParam(m_in) = 0
  /\ m_files = 0 /\ tx = <<>>

Pending == {"selecting_usb", "selecting_sd", "checking_folder_count"}

statesOf(trail) == {trail[i] : i \in 1..Len(trail)}

\* bring-up has completed through checking-folder-count
completedBringUp ==
  /\ m_state = "null" /\ Len(visited) >= 2
  /\ visited[Len(visited) - 1] = "checking_folder_count"

\* a valid USB file-count response with a count above zero is among c
usbNonzero(c) ==
  \E i \in 1..Len(c) :
     isValid(c[i]) /\ getMessageID(c[i]) = MID_USBFILECOUNT /\ getParam(c[i]) > 0

\* the state machine sent an SD file-count query or select-source(SD)
asksSD(t) ==
  \E i \in 1..Len(t) :
     \/ wireKind(t[i]) = MID_SDFILECOUNT
     \/ wireKind(t[i]) = MID_SELECTSOURCE /\ wireParam(t[i]) = 2

\* C28: when bring-up reaches terminal through checking-folder-count, the
\* recorded device is USB if the USB file-count response was nonzero and the
\* SD card otherwise, the recorded file count is the nonzero count reported
\* for that device (261 for USB, 3 for SD here), and in a run where USB
\* reported a nonzero count the state machine enters neither SD state and
\* transmits neither the SD file-count query nor select-source(SD).
C28_SourcePreference ==
  /\ [](completedBringUp =>
          IF "selecting_usb" \in statesOf(visited)
          THEN /\ m_source = DEV_USB /\ m_files = 261
               /\ "checking_sd_file_count" \notin statesOf(visited)
               /\ "selecting_sd" \notin statesOf(visited)
          ELSE /\ "selecting_sd" \in statesOf(visited)
               /\ m_source = DEV_SDCARD /\ m_files = 3)
  /\ [][/\ ("selecting_usb" \in statesOf(visited') /\
            "selecting_usb" \notin statesOf(visited)) =>
              /\ last'.op = "update" /\ m_state = "checking_usb_file_count"
              /\ usbNonzero(completed(m_in, last'.bytes))
        /\ (last'.op = "update" /\ "selecting_usb" \in statesOf(visited')) =>
              ~asksSD(tx')]_vars

C28_Witness ==
  /\ completedBringUp
  /\ visited = <<"resetting_hardware", "getting_version", "checking_usb_file_count",
                 "checking_sd_file_count", "selecting_sd", "checking_folder_count",
                 "null">>
  /\ m_source = DEV_SDCARD /\ m_files = 3

-----------------------------------------------------------------------------
\* Properties of the transitions

\* the frame kind a bring-up state's entry action transmits
entryKind(st) ==
  CASE st = "resetting_hardware" -> MID_RESET
    [] st = "getting_version" -> MID_FIRMWAREVERSION
    [] st = "checking_usb_file_count" -> MID_USBFILECOUNT
    [] st = "checking_sd_file_count" -> MID_SDFILECOUNT
    [] st = "selecting_usb" -> MID_SELECTSOURCE
    [] st = "selecting_sd" -> MID_SELECTSOURCE
    [] st = "checking_folder_count" -> MID_FOLDERCOUNT

isBringUp(st) == st # "null"

\* the states a step has entered, in order: what it appended to the trail
\* (reset() starts a new trail and enters nothing when the engine already is
\* in resetting-hardware)
entered(op, st, before, after) ==
  IF op = "reset"
  THEN IF st = "resetting_hardware" THEN <<>> ELSE after
  ELSE SubSeq(after, Len(before) + 1, Len(after))

\* C29: every entry into a bring-up state performs that state's entry action
\* exactly once, inside the transition: the frames a reset() or update()
\* step transmits are, in order, one per bring-up state the step entered, of
\* that state's kind (0x0C, 0x46, 0x47, 0x48, 0x09, 0x4F), and no step enters
\* the same state twice; the caller's commands enter no state.
C29_EntryActionOnce ==
  [][LET e == entered(last'.op, m_state, visited, visited')
         b == SelectSeq(e, isBringUp)
     IN  IF last'.op \in {"reset", "update"}
         THEN /\ Len(tx') = Len(b)
              /\ \A i \in 1..Len(b) :
                    /\ Len(tx'[i]) = 10 /\ wireKind(tx'[i]) = entryKind(b[i])
                    /\ \A j \in 1..Len(b) : b[i] = b[j] => i = j
              /\ \A i \in 1..Len(e) : e[i] = "null" => i = Len(e)
         ELSE e = <<>>]_vars

C29_Witness ==
  /\ last.op = "update" /\ m_state = "checking_usb_file_count"
  /\ visited = <<"resetting_hardware", "getting_version", "checking_usb_file_count">>
  /\ Len(tx) = 2
  /\ wireKind(tx[1]) = MID_FIRMWAREVERSION /\ wireKind(tx[2]) = MID_USBFILECOUNT

-----------------------------------------------------------------------------
\* Properties of the timer

\* the deadline the transmission of a frame of this kind leaves armed
deadlineOf(kind) == IF kind = MID_RESET THEN 10000 ELSE 200

\* the state a bring-up state goes to when it is given the timeout
afterTimeout(st) ==
  CASE st = "resetting_hardware" -> "null"
    [] st = "getting_version" -> "checking_usb_file_count"
    [] st = "checking_usb_file_count" -> "checking_sd_file_count"
    [] st = "checking_sd_file_count" -> "null"
    [] OTHER -> st

\* C30: there is one timer, attached to the most recently transmitted frame:
\* an armed deadline never exceeds the one set for the frame in m_out; every
\* step that transmits leaves the deadline of its last frame armed, so a
\* command or query of the caller replaces the deadline a bring-up state
\* waits on (10000 by 200 in resetting-hardware) without changing the state;
\* a step that transmits nothing arms nothing; and an expiry found by an
\* update() that brought no frame is delivered to the state active then.
C30_SingleTimer ==
  /\ [](m_timeout.armed => m_timeout.left <= deadlineOf(getMessageID(m_out)))
  /\ [][/\ tx' # <<>> =>
             /\ wire(m_out') = tx'[Len(tx')]
             /\ m_timeout' = TimeoutSet(deadlineOf(wireKind(tx'[Len(tx')])))
        /\ tx' = <<>> =>
             /\ m_out' = m_out
             /\ m_timeout'.armed => (m_timeout.armed /\ m_timeout'.left <= m_timeout.left)
        /\ (last'.op \notin {"update", "tick", "reset"} /\ tx' # <<>>) =>
             m_state' = m_state /\ m_timeout' = TimeoutSet(200)
        /\ (last'.op = "update" /\ TimeoutExpired(m_timeout) /\ m_state # "null"
            /\ completed(m_in, last'.bytes) = <<>>) =>
             /\ m_state' = afterTimeout(m_state)
             /\ m_state = "resetting_hardware" =>
                  \E i \in 1..Len(notes') : notes'[i] = NoResponse]_vars

\* resetting-hardware was ended by the expiry of the deadline that the
\* caller's setVolume had put in place of the 10000-unit wait
C30_Witness ==
  /\ m_state = "null" /\ visited = <<"resetting_hardware", "null">>
  /\ last.op = "update" /\ notes = <<NoResponse>>
  /\ getMessageID(m_out) = MID_SETVOLUME

\* C31: a deadline fires at most once: an update() that finds the deadline
\* expired leaves the timer disarmed unless the handling transmitted a frame
\* (which arms its own deadline); with the timer disarmed an update() that
\* brings no frame changes no state, transmits nothing and calls no hook; an
\* update() that brings a response and transmits nothing leaves a running
\* deadline as it was; and an expiry found in terminal changes no state and
\* transmits nothing.
C31_DeadlineFiresOnce ==
  [][last'.op = "update" =>
        LET c == completed(m_in, last'.bytes)
        IN  /\ TimeoutExpired(m_timeout) =>
                 m_timeout' = IF tx' = <<>> THEN TimeoutCancel ELSE TimeoutSet(200)
            /\ (~m_timeout.armed /\ c = <<>>) =>
                 /\ m_state' = m_state /\ tx' = <<>> /\ notes' = <<>>
                 /\ ~m_timeout'.armed
            /\ (m_timeout.armed /\ ~TimeoutExpired(m_timeout) /\ tx' = <<>>) =>
                 m_timeout' = m_timeout
            /\ (TimeoutExpired(m_timeout) /\ m_state = "null") =>
                 m_state' = "null" /\ tx' = <<>> /\ m_timeout' = TimeoutCancel]_vars

\* the deadline expired in terminal and update() has disarmed it
C31_Witness ==
  /\ m_state = "null" /\ Len(visited) >= 2
  /\ visited[Len(visited) - 1] = "checking_folder_count"
  /\ last = Step("update", <<>>) /\ ~m_timeout.armed

-----------------------------------------------------------------------------
\* Properties of the device operations

\* the frame kind and parameter the operation sends for a device, <<>> when
\* it sends nothing: USB, SD card, flash have wire numbers 1, 2, 5
deviceWire(op, d) ==
  LET n == CASE d = DEV_USB -> 1 [] d = DEV_SDCARD -> 2 [] d = DEV_FLASH -> 5 [] OTHER -> 0
      k == CASE d = DEV_USB -> 0 [] d = DEV_SDCARD -> 1 [] d = DEV_FLASH -> 2 [] OTHER -> 0
  IN  IF n = 0 THEN <<>>
      ELSE CASE op = "selectSource" -> <<9, n>>
             [] op = "queryFileCount" -> <<71 + k, 0>>
             [] op = "queryCurrentFile" -> <<75 + k, 0>>

\* C32: selectSource sends kind 0x09 with parameter 1 (USB), 2 (SD card),
\* 5 (flash); queryFileCount sends kind 0x47, 0x48, 0x49 and queryCurrentFile
\* kind 0x4B, 0x4C, 0x4D for USB, SD card, flash; for AUX and the sleep
\* pseudo-device each of the three sends nothing and leaves the deadline and
\* the outgoing frame as they were.
C32_DeviceMapping ==
  [][last'.op \in {"selectSource", "queryFileCount", "queryCurrentFile"} =>
        LET w == deviceWire(last'.op, last'.bytes[1])
        IN  IF w = <<>>
            THEN tx' = <<>> /\ m_timeout' = m_timeout /\ m_out' = m_out
            ELSE /\ Len(tx') = 1 /\ Len(tx'[1]) = 10
                 /\ wireKind(tx'[1]) = w[1] /\ wireParam(tx'[1]) = w[2]]_vars

C32_Witness ==
  /\ last = Step("queryCurrentFile", <<DEV_SLEEP>>)
  /\ tx = <<>> /\ ~m_timeout.armed

-----------------------------------------------------------------------------
\* Properties of the dispatcher (checked under SpecEvents)

\* the notifications of a device event: one per bit 0, 1, 2 set in the mask,
\* for USB, SD card, AUX in that order
deviceNotes(hook, mask) ==
  LET isSet(n) == (mask \div (2 ^ n.b)) % 2 = 1
      all == <<[hook |-> hook, a |-> DEV_USB, b |-> 0],
               [hook |-> hook, a |-> DEV_SDCARD, b |-> 1],
               [hook |-> hook, a |-> DEV_AUX, b |-> 2]>>
      set3 == SelectSeq(all, isSet)
  IN  [i \in 1..Len(set3) |-> Note(hook, set3[i].a, 0)]

\* the kinds onMessageReceived has a case for: 0x3A..0x49 and 0x4B..0x4F
TableKinds == (58..73) \cup (75..79)

\* C33: a valid device-inserted (0x3A) or device-removed (0x3B) frame raises
\* exactly one inserted (removed) notification for each of bits 0, 1, 2 set
\* in the low parameter byte, for USB, SD card, AUX in that order, and nothing
\* else; a valid frame of a kind outside the dispatcher's table raises nothing.
C33_DeviceEvents ==
  [][last'.op = "update" =>
        LET c == completed(m_in, last'.bytes)
        IN  (Len(c) = 1 /\ isValid(c[1])) =>
              LET kind == getMessageID(c[1])
                  mask == getParam(c[1]) % 256
              IN  /\ kind = 58 => notes' = deviceNotes("onDeviceInserted", mask)
                  /\ kind = 59 => notes' = deviceNotes("onDeviceRemoved", mask)
                  /\ kind \notin TableKinds => notes' = <<>>]_vars

C33_Witness ==
  /\ last.op = "update"
  /\ isOne(completed(NewMessage, last.bytes), MID_DEVICEREMOVED)
  /\ getParam(m_in) = 261
  /\ notes = <<Note("onDeviceRemoved", DEV_USB, 0), Note("onDeviceRemoved", DEV_AUX, 0)>>

-----------------------------------------------------------------------------
\* Properties of the recorded session

\* C34: the folder count recorded by checking-folder-count equals the count
\* forwarded to the sink for the same folder-count response, which is the
\* full 16-bit parameter of the frame.
C34_FolderCountRecorded ==
  [][(last'.op = "update" /\ m_state = "checking_folder_count") =>
        LET c == completed(m_in, last'.bytes)
        IN  isOne(c, MID_FOLDERCOUNT) =>
              /\ \E i \in 1..Len(notes') :
                    notes'[i] = Note("onFolderCount", getParam(c[1]), 0)
              /\ m_folders' = getParam(c[1])]_vars

-----------------------------------------------------------------------------
\* Properties of the encoder and the receiver's buffer

\* a receiver that starts fresh takes the frame as one 10-byte message
takenWhole(w) ==
  LET c == completed(NewMessage, w)
  IN  Len(c) = 1 /\ c[1].m_length = 10 /\ isValid(c[1])

\* kinds and parameters at the ends of the checksum's range and around END
SetKinds == {0, 12, 63, 239, 255}
SetParams == {0, 1, 255, 256, 61184, 61423, 65535}

\* C35: in every frame produced by Message::set the checksum high byte at
\* offset 7 is not the end marker 0xEF, so a receiver takes the frame as one
\* 10-byte frame and never early as an 8-byte one: for the frames the public
\* operations send, and for set() at the ends of its inputs' ranges.
C35_ChecksumHighNotEnd ==
  /\ \A i \in 1..Len(tx) :
        Len(tx[i]) = 10 /\ tx[i][8] # 239 /\ takenWhole(tx[i])
  /\ \A k \in SetKinds, p \in SetParams, fb \in {NO_FEEDBACK, FEEDBACK} :
        LET m == set(NewMessage, k, p, fb)
        IN  m.m_buf[7] # 239 /\ m.m_buf[7] \in 251..254 /\ takenWhole(wire(m))

\* selectEQ(4) sends a frame whose checksum low byte is 0xEF and whose high
\* byte is not
C35_Witness ==
  /\ last = Step("selectEQ", <<4>>)
  /\ Len(tx) = 1 /\ tx[1][9] = 239 /\ tx[1][8] = 254 /\ takenWhole(tx[1])

\* C36: after any sequence of receive() calls the cursor m_length is in
\* 0..10, the buffer still has its ten offsets 0..9 with the template bytes
\* 0x7E, 0xFF, 0x06, 0xEF at offsets 0, 1, 2, 9, and every receive() call
\* changes the buffer at no offset other than one of 3..8, the offset the
\* cursor was at.
C36_ReceiverBuffer ==
  /\ [](/\ m_in.m_length \in 0..10
        /\ DOMAIN m_in.m_buf = 0..9
        /\ m_in.m_buf[0] = 126 /\ m_in.m_buf[1] = 255
        /\ m_in.m_buf[2] = 6 /\ m_in.m_buf[9] = 239)
  /\ [][fed' = fed + 1 =>
          \A o \in 0..9 :
             m_in'.m_buf[o] # m_in.m_buf[o] => (o \in 3..8 /\ o = m_in.m_length)]_vars

\* a checksum byte was stored at offset 8 after stray bytes had been skipped
C36_Witness ==
  /\ plan.noise # <<>> /\ fed > Len(plan.noise)
  /\ m_in.m_length = 9 /\ m_in.m_buf[8] # 0

-----------------------------------------------------------------------------
\* Properties of the command buffer (checked under SpecCmd)

\* buf holds a NUL somewhere
terminated(buf) == \E i \in DOMAIN buf : buf[i] = NUL

\* the characters of s before its first NUL
RECURSIVE uptoNul(_)
uptoNul(s) == IF s = <<>> \/ Head(s) = NUL THEN <<>> ELSE <<Head(s)>> \o uptoNul(Tail(s))

\* the string `operator const char *` gives: buf up to its first NUL
cstring(buf) == uptoNul([k \in 1..BUFFER_SIZE |-> buf[k - 1]])

\* C37 (as stated): available() never writes outside buf, and whenever it
\* has returned true buf holds a NUL-terminated string that is the whole line
\* just received when the line has fewer than BUFFER_SIZE characters.
C37_WholeLine ==
  /\ ~heard.oob
  /\ heard.ret => /\ terminated(cmd.buf)
                  /\ Len(heard.got) < BUFFER_SIZE => cstring(cmd.buf) = heard.got

\* C37: available() never writes outside buf[0..BUFFER_SIZE-1] and keeps
\* buflen in 0..BUFFER_SIZE; whenever it has returned true buf holds a
\* NUL-terminated string, which for a line of fewer than BUFFER_SIZE
\* characters is the line up to its first NUL character: the whole line when
\* the line contains no NUL.
C37_MemorySafe ==
  /\ ~heard.oob
  /\ cmd.buflen \in 0..BUFFER_SIZE
  /\ DOMAIN cmd.buf = 0..(BUFFER_SIZE - 1)
  /\ heard.ret => /\ terminated(cmd.buf)
                  /\ Len(heard.got) < BUFFER_SIZE => cstring(cmd.buf) = uptoNul(heard.got)

\* a line of more than BUFFER_SIZE characters was read: buf holds its tail
C37_Witness ==
  /\ heard.ret /\ Len(heard.got) = BUFFER_SIZE + 1
  /\ cstring(cmd.buf) = <<heard.got[BUFFER_SIZE + 1]>>
  /\ heard.got[BUFFER_SIZE + 1] # NUL

-----------------------------------------------------------------------------
\* Properties of the fogger (checked under SpecFog)

\* update() is called during a burst, the calls having been at most
\* MAX_BURST apart since on()
steadyUpdate ==
  /\ burst'.op = "update"
  /\ burst.active /\ burst.steady /\ burst.gap <= MAX_BURST

\* C38: after on(d), with update() called at least once every MAX_BURST ms,
\* the relay stays on at every update() whose elapsed time is below
\* min(d, MAX_BURST) and is switched off by the first update() whose elapsed
\* time is at least that, also when the clock wraps in between; an on() call
\* made while the relay is on changes nothing.
C38_BurstExpiry ==
  [][/\ steadyUpdate =>
          IF burst.elapsed < burst.length
          THEN fogger'.relay /\ fogger'.m_timeout = fogger.m_timeout
          ELSE ~fogger'.relay
     /\ (burst'.op = "on" /\ fogger.relay) =>
          /\ fogger' = fogger
          /\ burst'.length = burst.length /\ burst'.elapsed = burst.elapsed]_vars

-----------------------------------------------------------------------------
\* Properties of the rotary encoder (checked under SpecEnc)

\* C39: counting is symmetric in direction: starting from reset(), after n
\* full detents clockwise (4n steps) count() = n and after n full detents
\* counter-clockwise count() = -n; and whenever update() returns true,
\* count() differs from its value at the previous update() that returned
\* true.
C39_SymmetricCount ==
  /\ []((turn.steps % 4 = 0 /\ turn.dir = "cw") => encCount(encoder) = turn.steps \div 4)
  /\ []((turn.steps % 4 = 0 /\ turn.dir = "ccw") => encCount(encoder) = -(turn.steps \div 4))
  /\ [][(turn'.op = "update" /\ turn'.ret /\ turn.had) =>
           encCount(encoder') # turn.prev]_vars

-----------------------------------------------------------------------------
\* Properties of the timecode reader (checked under SpecTc)

\* update() uses a value it has read from data
uses == upd.part # "none" /\ upd'.part = "none"

\* every value update() reads from data is the value data had when ready
\* was set for the word it took
readsTaken == uses => loaded = upd.token.val

\* the word update() processes, the one in data when it compares data with
\* the sync word, was not processed by the call before
onceEach == (uses /\ upd.pc = "compare") => clock.seq # clock.done

\* update() returns true only having processed the sync word right after
\* four data words, and a sync word before them
wholeFrame ==
  (upd'.op = "return" /\ upd'.ret) =>
    LET K == clock'.kinds
        n == Len(K)
    IN  /\ n >= 5
        /\ K[n]
        /\ \A i \in (n - 4)..(n - 1) : ~K[i]
        /\ n > 5 => K[n - 5]

\* C40: for every interleaving of timecodeInterrupt() with update(), each
\* word completed while frame-synchronised is processed by update() at most
\* once and with the value data had when ready was set for it, and update()
\* returns true only when it processes the sync word immediately after
\* exactly four data words since the previous sync word.
C40_HandOff == [][readsTaken /\ onceEach /\ wholeFrame]_vars

====
